---- MODULE Spec2Model ----
(***************************************************************************)
(* A model of the journalism-blog backend: the authentication and          *)
(* ownership guards, the post / comment / like handlers and the entity     *)
(* accessors they call, over a relational store with the constraints the   *)
(* schema declares (SERIAL keys, UNIQUE, ON DELETE CASCADE).                *)
(*                                                                         *)
(* A JavaScript string is a sequence of one-character strings.  Every      *)
(* database round trip (an `await query(...)`) is one atomic step; a       *)
(* handler is the sequence of its round trips, and the steps of requests   *)
(* in flight interleave freely.                                            *)
(***************************************************************************)
EXTENDS Integers, Sequences, FiniteSets, TLC

VARIABLES
    users,       \* ids of the rows of table users
    emails,      \* table users: id -> email
    uploads,     \* the stored images: [provider, name]
    likeAge,     \* table likes: (post_id, user_id) -> age class of created_at
    userSeq,     \* next value of users.id (SERIAL)
    posts,       \* table posts: id -> [user_id, title, slug, published, views]
    postSeq,     \* next value of posts.id (SERIAL)
    comments,    \* table comments: id -> [post_id, user_id, text]
    commentSeq,  \* next value of comments.id (SERIAL)
    likes,       \* table likes: <<post_id, user_id>> -> number of rows
    req,         \* the requests in flight, one per slot
    resp,        \* the request the last step answered, with its response
    sTitle,      \* slug harness: the title given to generateSlug
    sSlug,       \* slug harness: generateSlug(sTitle)
    sSlug2,      \* slug harness: generateSlug(sSlug)
    sPc,         \* slug harness: "in", "once", "twice"
    hist         \* observer: the run of like toggles answered back to back

dbVars == <<users, emails, userSeq, posts, postSeq, comments, commentSeq, likes, likeAge>>
slugVars == <<sTitle, sSlug, sSlug2, sPc>>
vars == <<users, emails, userSeq, posts, postSeq, comments, commentSeq, likes, req, resp,
          sTitle, sSlug, sSlug2, sPc, hist, uploads, likeAge>>

(***************************************************************************)
(* Bounds                                                                  *)
(***************************************************************************)
MaxLen == 4        \* longest title given to the slug harness
MaxUsers == 2      \* users ever registered
MaxPosts == 2      \* posts.id values ever drawn
MaxComments == 1   \* comments.id values ever drawn
MaxProbePosts == 3  \* posts in store when generateUniqueSlug is run alone
MaxReq == 2        \* requests in flight at once
MaxAuthViews == 1  \* cap on the views under the guard specification
MaxViews == 2      \* cap on a post's view counter
MaxOwnPosts == 1   \* posts created under the ownership specification

(***************************************************************************)
(* Strings                                                                 *)
(***************************************************************************)
UpperCase == <<"A","B","C","D","E","F","G","H","I","J","K","L","M",
               "N","O","P","Q","R","S","T","U","V","W","X","Y","Z">>
LowerCase == <<"a","b","c","d","e","f","g","h","i","j","k","l","m",
               "n","o","p","q","r","s","t","u","v","w","x","y","z">>
Digits == <<"0","1","2","3","4","5","6","7","8","9">>

Range(s) == {s[i] : i \in 1..Len(s)}

\* the characters the regular expression class \s matches (those in use here)
WhiteSpace == {" ", "\t", "\n"}

\* the characters of the class [a-z0-9 -]
SlugClass == Range(LowerCase) \cup Range(Digits) \cup {" ", "-"}

\* String.prototype.toLowerCase, one character
toLowerChar(c) ==
    IF c \in Range(UpperCase)
    THEN LowerCase[CHOOSE i \in 1..Len(UpperCase) : UpperCase[i] = c]
    ELSE c

toLowerCase(s) == [i \in 1..Len(s) |-> toLowerChar(s[i])]

\* .replace(/[^a-z0-9 -]/g, '')
removeSpecial(s) == SelectSeq(s, LAMBDA c : c \in SlugClass)

\* .replace(/X+/g, '-') for a character class X: every maximal run of
\* characters of X becomes one hyphen
RECURSIVE replaceRuns(_, _)
replaceRuns(s, X) ==
    IF s = <<>> THEN <<>>
    ELSE IF Head(s) \in X
         THEN IF Len(s) > 1 /\ s[2] \in X
              THEN replaceRuns(Tail(s), X)
              ELSE <<"-">> \o replaceRuns(Tail(s), X)
         ELSE <<Head(s)>> \o replaceRuns(Tail(s), X)

\* String.prototype.trim takes no argument: the '-' passed to it is ignored
\* and white space is what it strips from both ends
RECURSIVE trimStart(_)
\* String.prototype.includes
includes(t, s) == \E i \in 1..(Len(t) - Len(s) + 1) : SubSeq(t, i, i + Len(s) - 1) = s

\* the place of the first occurrence of s in t, 0 when there is none
indexOf(t, s) ==
    IF includes(t, s)
    THEN CHOOSE i \in 1..(Len(t) - Len(s) + 1) :
           /\ SubSeq(t, i, i + Len(s) - 1) = s
           /\ \A j \in 1..(i - 1) : SubSeq(t, j, j + Len(s) - 1) # s
    ELSE 0

\* t.split(s).pop(): what follows the last separator, found left to right
RECURSIVE splitPop(_, _)
splitPop(t, s) ==
    IF ~includes(t, s) THEN t
    ELSE splitPop(SubSeq(t, indexOf(t, s) + Len(s), Len(t)), s)

trimStart(s) ==
    IF s # <<>> /\ Head(s) \in WhiteSpace THEN trimStart(Tail(s)) ELSE s

RECURSIVE trimEnd(_)
trimEnd(s) ==
    IF s # <<>> /\ s[Len(s)] \in WhiteSpace
    THEN trimEnd(SubSeq(s, 1, Len(s) - 1))
    ELSE s

trim(s) == trimEnd(trimStart(s))

\* a plausible slip: hyphens collapsed before the spaces are replaced
generateSlug_collapseFirst(title) ==
    trim(replaceRuns(replaceRuns(removeSpecial(toLowerCase(title)), {"-"}),
                     WhiteSpace))

\* Post.generateSlug
generateSlug(title) ==
    trim(replaceRuns(replaceRuns(removeSpecial(toLowerCase(title)),
                                 WhiteSpace),
                     {"-"}))

\* the decimal digits of a natural number, as `${counter}` prints it
RECURSIVE toDecimal(_)
toDecimal(n) ==
    IF n < 10 THEN <<Digits[n + 1]>>
    ELSE toDecimal(n \div 10) \o <<Digits[(n % 10) + 1]>>

\* a JavaScript number that the handlers compute from a query parameter:
\* <<n>> is the integer n, << >> is NaN
NaN == << >>
Num(n) == <<n>>

\* the longest prefix of s made of digits
RECURSIVE digitPrefix(_)
digitPrefix(s) ==
    IF s # <<>> /\ Head(s) \in Range(Digits)
    THEN <<Head(s)>> \o digitPrefix(Tail(s))
    ELSE <<>>

\* parseInt of a string of digits
RECURSIVE parseInt(_)
parseInt(s) ==
    IF s = <<>> THEN 0
    ELSE 10 * parseInt(SubSeq(s, 1, Len(s) - 1))
         + (CHOOSE d \in 0..9 : Digits[d + 1] = s[Len(s)])

\* parseInt(string): leading white space is skipped, a sign is read, then the
\* longest run of digits; NaN when there is no digit
jsParseInt(s) ==
    LET t == trimStart(s)
        signed == t # <<>> /\ Head(t) \in {"-", "+"}
        ds == digitPrefix(IF signed THEN Tail(t) ELSE t)
    IN  IF ds = <<>> THEN NaN
        ELSE IF signed /\ Head(t) = "-" THEN Num(0 - parseInt(ds))
        ELSE Num(parseInt(ds))

\* Math.max and Math.min: NaN when an argument is NaN
MathMax(a, b) ==
    IF a = NaN \/ b = NaN THEN NaN ELSE IF a[1] >= b[1] THEN a ELSE b

MathMin(a, b) ==
    IF a = NaN \/ b = NaN THEN NaN ELSE IF a[1] <= b[1] THEN a ELSE b

\* LIKE: % matches any run of characters, _ any one character, and a
\* backslash takes the next character literally
RECURSIVE LikeMatch(_, _)
LikeMatch(t, p) ==
    IF p = <<>> THEN t = <<>>
    ELSE IF Head(p) = "%"
    THEN LikeMatch(t, Tail(p)) \/ (t # <<>> /\ LikeMatch(Tail(t), p))
    ELSE IF Head(p) = "_" THEN t # <<>> /\ LikeMatch(Tail(t), Tail(p))
    ELSE IF Head(p) = "\\" /\ Len(p) >= 2
    THEN t # <<>> /\ Head(t) = p[2] /\ LikeMatch(Tail(t), Tail(Tail(p)))
    ELSE t # <<>> /\ Head(t) = Head(p) /\ LikeMatch(Tail(t), Tail(p))

\* text ILIKE pattern
ilike(t, p) == LikeMatch(toLowerCase(t), toLowerCase(p))

(***************************************************************************)
(* Slug harness: generateSlug applied to every title over a small alphabet *)
(***************************************************************************)
SlugAlphabet == {"a", "B", "7", " ", "-", "!", "\t"}

RECURSIVE StringsUpTo(_, _)
StringsUpTo(A, n) ==
    IF n = 0 THEN {<<>>}
    ELSE LET shorter == StringsUpTo(A, n - 1)
         IN  shorter \cup {Append(s, c) : s \in shorter, c \in A}

Empty == <<>>

(***************************************************************************)
(* The store                                                               *)
(***************************************************************************)
InitDbEmpty ==
    /\ users = {}
    /\ emails = Empty
    /\ userSeq = 1
    /\ posts = Empty
    /\ postSeq = 1
    /\ comments = Empty
    /\ commentSeq = 1
    /\ likes = Empty
    /\ likeAge = Empty

\* a table without the rows whose key is in gone
Without(table, gone) == [k \in (DOMAIN table) \ gone |-> table[k]]

\* a table with one more row
With(table, k, row) == [j \in (DOMAIN table) \cup {k} |-> IF j = k THEN row ELSE table[j]]

\* likes.created_at against NOW(): the age class of a row is the number of
\* the intervals 1 day, 1 week, 1 month it has outlived
MaxAge == 3

\* the age classes of the rows of L: a row just inserted is of class 0
Aged(L) == [k \in DOMAIN L |-> IF k \in DOMAIN likeAge THEN likeAge[k] ELSE 0]

\* number of rows of likes for (post_id, user_id)
LikeRows(L, p, u) == IF <<p, u>> \in DOMAIN L THEN L[<<p, u>>] ELSE 0

\* SELECT COUNT(*) FROM likes WHERE post_id = p
RECURSIVE SumRows(_, _)
SumRows(L, keys) ==
    IF keys = {} THEN 0
    ELSE LET k == CHOOSE x \in keys : TRUE
         IN  L[k] + SumRows(L, keys \ {k})

getCountByPostId(L, p) == SumRows(L, {k \in DOMAIN L : k[1] = p})

\* ON DELETE CASCADE, posts(id) -> comments.post_id, likes.post_id
CommentsAfterPostsGone(C, gonePosts) ==
    Without(C, {c \in DOMAIN C : C[c].post_id \in gonePosts})

LikesAfterPostsGone(L, gonePosts) ==
    Without(L, {k \in DOMAIN L : k[1] \in gonePosts})

\* ON DELETE CASCADE, users(id) -> posts.user_id
PostsOfUser(P, u) == {p \in DOMAIN P : P[p].user_id = u}

\* ON DELETE CASCADE, users(id) -> comments.user_id, likes.user_id, and on
\* through the user's posts
CommentsAfterUserGone(C, P, u) ==
    Without(C, {c \in DOMAIN C : C[c].user_id = u \/ C[c].post_id \in PostsOfUser(P, u)})

\* a cascade that stops at the user's own likes
LikesAfterUserGone_ownOnly(L, P, u) ==
    Without(L, {k \in DOMAIN L : k[2] = u})

LikesAfterUserGone(L, P, u) ==
    Without(L, {k \in DOMAIN L : k[2] = u \/ k[1] \in PostsOfUser(P, u)})

\* posts.slug UNIQUE: may row `self` (0 for a new row) take slug s
SlugFree(P, s, self) == \A p \in DOMAIN P : p = self \/ P[p].slug # s

(***************************************************************************)
(* Errors and the central translator                                       *)
(***************************************************************************)
\* an error as errorHandler reads it: AppError carries statusCode, a storage
\* error carries code, a token error or TypeError carries name
AppError(message, statusCode) ==
    [statusCode |-> statusCode, code |-> "", name |-> "Error", message |-> message]

PgError(code) ==
    [statusCode |-> 0, code |-> code, name |-> "error", message |-> "pg " \o code]

TypeError(message) ==
    [statusCode |-> 0, code |-> "", name |-> "TypeError", message |-> message]

\* errorHandler that lets a status code carried by the error decide first
errorHandler_statusFirst(err) ==
    IF err.statusCode # 0
    THEN [status |-> err.statusCode, msg |-> err.message, success |-> FALSE, data |-> FALSE]
    ELSE IF err.code = "23505"
    THEN [status |-> 409, msg |-> "Resource already exists", success |-> FALSE, data |-> FALSE]
    ELSE IF err.code \in {"23503", "22P02"}
    THEN [status |-> 400, msg |-> "Invalid input data", success |-> FALSE, data |-> FALSE]
    ELSE IF err.name \in {"JsonWebTokenError", "TokenExpiredError"}
    THEN [status |-> 401, msg |-> "Invalid token", success |-> FALSE, data |-> FALSE]
    ELSE IF err.name = "ValidationError"
    THEN [status |-> 400, msg |-> err.message, success |-> FALSE, data |-> FALSE]
    ELSE [status |-> 500, msg |-> err.message, success |-> FALSE, data |-> FALSE]

\* errorHandler: the status and message of the response, its success flag
\* and whether it has a data field
errorHandler(err) ==
    IF err.code = "23505"
    THEN [status |-> 409, msg |-> "Resource already exists",
          success |-> FALSE, data |-> FALSE]
    ELSE IF err.code = "23503"
    THEN [status |-> 400, msg |-> "Invalid reference to related resource",
          success |-> FALSE, data |-> FALSE]
    ELSE IF err.code = "22P02"
    THEN [status |-> 400, msg |-> "Invalid input data", success |-> FALSE, data |-> FALSE]
    ELSE IF err.name = "JsonWebTokenError"
    THEN [status |-> 401, msg |-> "Invalid token", success |-> FALSE, data |-> FALSE]
    ELSE IF err.name = "TokenExpiredError"
    THEN [status |-> 401, msg |-> "Token expired", success |-> FALSE, data |-> FALSE]
    ELSE IF err.name = "ValidationError"
    THEN [status |-> 400, msg |-> err.message, success |-> FALSE, data |-> FALSE]
    ELSE [status |-> IF err.statusCode # 0 THEN err.statusCode ELSE 500,
          msg |-> IF err.message # "" THEN err.message ELSE "Internal Server Error",
          success |-> FALSE, data |-> FALSE]

\* errorHandler: response.stack is set when NODE_ENV is 'development'
ResponseStack(env) == env = "development"

\* no error
NoError == [statusCode |-> 0, code |-> "", name |-> "", message |-> ""]

(***************************************************************************)
(* Uploads                                                                 *)
(***************************************************************************)
Undefined == <<"undefined">>     \* a body field or query parameter that is absent

S_cloudinary == <<"c","l","o","u","d","i","n","a","r","y",".","c","o","m">>
S_uploads == <<"/","u","p","l","o","a","d","s","/">>
S_blogImages == <<"/","b","l","o","g","-","i","m","a","g","e","s","/">>

NoFile == [provider |-> "null", publicId |-> <<>>, filename |-> <<>>]

\* url.match(/\/blog-images\/([^/.]+)/): the first place where /blog-images/
\* is followed by a character other than / and ., and the run of such
\* characters from there; the empty string stands for no match
blogImagesMatch(url) ==
    LET n == Len(S_blogImages)
        plain(i) == i <= Len(url) /\ url[i] \notin {"/", "."}
        hits == {i \in 1..Len(url) :
                   /\ i + n <= Len(url)
                   /\ SubSeq(url, i, i + n - 1) = S_blogImages
                   /\ plain(i + n)}
    IN  IF hits = {} THEN <<>>
        ELSE LET i == CHOOSE h \in hits : \A g \in hits : h <= g
                 last == CHOOSE e \in (i + n)..Len(url) :
                           /\ \A k \in (i + n)..e : plain(k)
                           /\ ~plain(e + 1)
             IN  SubSeq(url, i + n, last)

\* getFileInfoFromUrl; an absent publicId or filename is the empty string,
\* which deleteUpload reads as false like null
getFileInfoFromUrl(url) ==
    IF url = Undefined \/ url = <<>> THEN NoFile
    ELSE IF includes(url, S_cloudinary)
    THEN [provider |-> "cloudinary",
          publicId |-> IF blogImagesMatch(url) = <<>> THEN <<>>
                       ELSE <<"b","l","o","g","-","i","m","a","g","e","s","/">>
                              \o blogImagesMatch(url),
          filename |-> <<>>]
    ELSE IF includes(url, S_uploads)
    THEN [provider |-> "local", publicId |-> <<>>, filename |-> splitPop(url, S_uploads)]
    ELSE NoFile

\* the stored image deleteUpload sets out to remove
Target(imageData) ==
    [provider |-> imageData.provider,
     name |-> IF imageData.provider = "cloudinary" THEN imageData.publicId
              ELSE imageData.filename]

\* deleteUpload whose catch throws the failure on
deleteUpload_rethrow(imageData, threw) ==
    LET named == IF imageData.provider = "cloudinary" THEN imageData.publicId # <<>>
                 ELSE imageData.provider = "local" /\ imageData.filename # <<>>
        tried == named /\ (imageData.provider = "local" => Target(imageData) \in uploads)
    IN  IF ~tried THEN [uploads |-> uploads, logged |-> "", err |-> NoError]
        ELSE IF threw
        THEN [uploads |-> uploads, logged |-> "error",
              err |-> AppError("Failed to delete upload", 500)]
        ELSE [uploads |-> uploads \ {Target(imageData)}, logged |-> "log", err |-> NoError]

\* deleteUpload: cloudinary.uploader.destroy for a cloudinary image with a
\* publicId, fs.unlinkSync for a local one whose file exists; either may
\* throw (threw), and the catch logs the failure and throws nothing
deleteUpload(imageData, threw) ==
    LET named == IF imageData.provider = "cloudinary" THEN imageData.publicId # <<>>
                 ELSE imageData.provider = "local" /\ imageData.filename # <<>>
        tried == named /\ (imageData.provider = "local" => Target(imageData) \in uploads)
    IN  IF ~tried THEN [uploads |-> uploads, logged |-> "", err |-> NoError]
        ELSE IF threw
        THEN [uploads |-> uploads, logged |-> "error", err |-> NoError]
        ELSE [uploads |-> uploads \ {Target(imageData)}, logged |-> "log", err |-> NoError]

(***************************************************************************)
(* Requests                                                                *)
(***************************************************************************)
Slots == 1..MaxReq

\* a post body that passes validateBody
B_Lorem == <<"l","o","r","e","m"," ","i","p","s","u","m">>

\* a request: what it carries (route .. password), what the guards attach
\* (user), where its handler stands (pc and the handler's locals), and its
\* response (status, msg and the data fields the claims read)
Blank ==
    [route |-> "none",
     hdr |-> "none", tok |-> "empty", tokUid |-> 0,
     id |-> 0, ident |-> <<>>,
     title |-> Undefined, published |-> "undefined", text |-> "", password |-> "",
     user |-> 0, pc |-> "idle", status |-> 0, msg |-> "",
     slug |-> <<>>, baseSlug |-> <<>>, counter |-> 0,
     cur |-> FALSE, liked |-> FALSE, action |-> "", count |-> 0,
     body |-> B_Lorem, tags |-> {},
     page |-> Undefined, limit |-> Undefined, qtags |-> Undefined,
     author |-> Undefined, search |-> Undefined,
     pageNum |-> NaN, limitNum |-> NaN, items |-> <<>>, total |-> 0, pages |-> 0,
     err |-> NoError, success |-> FALSE, data |-> FALSE, email |-> <<>>,
     imageUrl |-> Undefined, logged |-> "", timeframe |-> "undefined",
     env |-> "production", stack |-> FALSE]

\* router files: which guard stands in front of each route
MandatoryRoutes ==
    {"deleteAccount", "createPost", "updatePost", "deletePost", "togglePublish",
     "getPostStats", "createComment", "updateComment", "deleteComment", "toggleLike",
     "getUserPosts", "getUserComments", "getUserLikedPosts", "deleteImage"}

OptionalRoutes == {"getPost", "checkUserLike"}

AuthMode(route) ==
    IF route \in MandatoryRoutes THEN "mandatory"
    ELSE IF route \in OptionalRoutes THEN "optional"
    ELSE "public"

\* a router that leaves checkOwnership out of PUT /:id
OwnershipKind_updateUnguarded(route) ==
    IF route \in {"deletePost", "togglePublish", "getPostStats"} THEN "post"
    ELSE IF route \in {"updateComment", "deleteComment"} THEN "comment"
    ELSE "none"

\* router files: the resource kind of checkOwnership in front of a route
OwnershipKind(route) ==
    IF route \in {"updatePost", "deletePost", "togglePublish", "getPostStats"} THEN "post"
    ELSE IF route \in {"updateComment", "deleteComment"} THEN "comment"
    ELSE "none"

\* the token taken from the Authorization header: "" when the header is absent
\* or does not start with 'Bearer ', or when nothing follows 'Bearer '
BearerToken(q) == IF q.hdr = "bearer" THEN q.tok ELSE "empty"

\* verifyToken with expiry not checked
verifyToken_noExpiry(q, U) ==
    LET token == BearerToken(q) IN
    IF token = "empty"
    THEN [status |-> 401, msg |-> "Access denied. No token provided.", user |-> 0]
    ELSE IF token = "malformed"
    THEN [status |-> 401, msg |-> "Invalid token", user |-> 0]
    ELSE IF q.tokUid \notin U
    THEN [status |-> 401, msg |-> "Token is valid but user no longer exists", user |-> 0]
    ELSE [status |-> 0, msg |-> "", user |-> q.tokUid]

\* verifyToken with the user lookup dropped
verifyToken_noLookup(q, U) ==
    LET token == BearerToken(q) IN
    IF token = "empty"
    THEN [status |-> 401, msg |-> "Access denied. No token provided.", user |-> 0]
    ELSE IF token = "malformed"
    THEN [status |-> 401, msg |-> "Invalid token", user |-> 0]
    ELSE IF token = "expired"
    THEN [status |-> 401, msg |-> "Token expired", user |-> 0]
    ELSE [status |-> 0, msg |-> "", user |-> q.tokUid]

\* verifyToken: status 0 stands for next()
verifyToken(q, U) ==
    LET token == BearerToken(q) IN
    IF token = "empty"
    THEN [status |-> 401, msg |-> "Access denied. No token provided.", user |-> 0]
    ELSE IF token = "malformed"
    THEN [status |-> 401, msg |-> "Invalid token", user |-> 0]
    ELSE IF token = "expired"
    THEN [status |-> 401, msg |-> "Token expired", user |-> 0]
    ELSE IF q.tokUid \notin U
    THEN [status |-> 401, msg |-> "Token is valid but user no longer exists", user |-> 0]
    ELSE [status |-> 0, msg |-> "", user |-> q.tokUid]

\* optionalAuth that surfaces token errors
optionalAuth_strict(q, U) == verifyToken(q, U)

\* optionalAuth: always next(); a user is attached only for a verified token
\* whose user row exists
optionalAuth(q, U) ==
    LET token == BearerToken(q) IN
    IF token = "valid" /\ q.tokUid \in U
    THEN [status |-> 0, msg |-> "", user |-> q.tokUid]
    ELSE [status |-> 0, msg |-> "", user |-> 0]

\* checkOwnership without the comparison of owner and user
checkOwnership_noCompare(kind, q, P, C) ==
    LET table == IF kind = "post" THEN P ELSE C IN
    IF q.user = 0
    THEN errorHandler(TypeError("Cannot read properties of undefined"))
    ELSE IF kind \notin {"post", "comment"}
    THEN errorHandler(AppError("Invalid resource type", 400))
    ELSE IF q.id \notin DOMAIN table
    THEN errorHandler(AppError("not found", 404))
    ELSE [status |-> 0, msg |-> ""]

\* checkOwnership(kind): status 0 stands for next()
checkOwnership(kind, q, P, C) ==
    LET table == IF kind = "post" THEN P ELSE C IN
    IF q.user = 0
    THEN errorHandler(TypeError("Cannot read properties of undefined"))
    ELSE IF kind \notin {"post", "comment"}
    THEN errorHandler(AppError("Invalid resource type", 400))
    ELSE IF q.id \notin DOMAIN table
    THEN errorHandler(AppError("not found", 404))
    ELSE IF table[q.id].user_id # q.user
    THEN errorHandler(AppError("Access denied. You don't own this resource.", 403))
    ELSE [status |-> 0, msg |-> ""]

(***************************************************************************)
(* Handlers: the part of each handler that runs before its first query     *)
(***************************************************************************)
Done(q, status, msg) ==
    [q EXCEPT !.pc = "done", !.status = status, !.msg = msg, !.success = status < 400]

\* next(err), or a throw caught by asyncHandler: the translator answers; data
\* tells whether the error response has a data field
Fail(q, err) ==
    [Done(q, errorHandler(err).status, errorHandler(err).msg)
        EXCEPT !.success = errorHandler(err).success, !.data = errorHandler(err).data,
               !.stack = ResponseStack(q.env)]

TitleMin == 3
BodyMin == 10
TitleMax == 255

\* validateTitle
validateTitle(title) ==
    /\ title # Undefined
    /\ title # <<>>
    /\ Len(trim(title)) >= TitleMin
    /\ Len(trim(title)) <= TitleMax

\* generateUniqueSlug, up to its first probe
\* validateEmail: /^[^\s@]+@[^\s@]+\.[^\s@]+$/
validateEmail(email) ==
    /\ \A i \in 1..Len(email) : email[i] \notin WhiteSpace
    /\ Cardinality({i \in 1..Len(email) : email[i] = "@"}) = 1
    /\ LET at == CHOOSE i \in 1..Len(email) : email[i] = "@"
       IN  /\ at > 1
           /\ \E d \in (at + 2)..(Len(email) - 1) : email[d] = "."

validateBody(body) == body # Undefined /\ body # <<>> /\ Len(trim(body)) >= BodyMin

\* the list endpoints, the largest page size each allows and its default
ListRoutes ==
    {"getPosts", "getUserPosts", "getComments", "getUserComments",
     "getRecentComments", "getPostLikes", "getUserLikedPosts"}

MaxLimit(route) == IF route \in {"getComments", "getPostLikes"} THEN 100 ELSE 50

DefaultLimit(route) ==
    IF route \in {"getComments", "getPostLikes"} THEN 20
    ELSE IF route = "getRecentComments" THEN 5 ELSE 10

\* parseInt of a query parameter, after the default of the destructuring
ParamInt(raw, default) == IF raw = Undefined THEN Num(default) ELSE jsParseInt(raw)

\* Math.max(1, parseInt(page)) and
\* Math.min(max, Math.max(1, parseInt(limit))) of the list controllers
PageNum(q) == MathMax(Num(1), ParamInt(q.page, 1))

LimitNum(q) ==
    MathMin(Num(MaxLimit(q.route)),
            MathMax(Num(1), ParamInt(q.limit, DefaultLimit(q.route))))

\* getMostLikedPosts: selectedTimeframe, 'week' when the parameter is absent
\* or none of the valid ones
SelectedTimeframe(timeframe) ==
    IF timeframe \in {"day", "week", "month", "all"} THEN timeframe ELSE "week"

StartUniqueSlug(q, title) ==
    [q EXCEPT !.pc = "generateUniqueSlug",
              !.baseSlug = generateSlug(title),
              !.slug = generateSlug(title),
              !.counter = 1]

\* the handler of q.route, from its entry to its first query
HandlerEntry(q) ==
    CASE q.route = "createPost" ->
           IF ~validateTitle(q.title)
           THEN Fail(q, AppError("Title must be between 3 and 255 characters", 400))
           ELSE IF ~validateBody(q.body)
           THEN Fail(q, AppError("Body must be at least 10 characters long", 400))
           ELSE StartUniqueSlug(q, trim(q.title))
      [] q.route \in ListRoutes ->
           [q EXCEPT !.pageNum = PageNum(q), !.limitNum = LimitNum(q),
                     !.pc = IF q.route \in {"getComments", "getPostLikes"}
                            THEN "Post.findById" ELSE "list.page"]
      [] q.route = "updatePost" ->
           IF q.title # Undefined /\ ~validateTitle(q.title)
           THEN Fail(q, AppError("Title must be between 3 and 255 characters", 400))
           ELSE IF q.title # Undefined
           THEN StartUniqueSlug(q, trim(q.title))
           ELSE IF q.published # "undefined"
           THEN [q EXCEPT !.pc = "Post.update"]
           ELSE Fail(q, AppError("No fields to update", 400))
      [] q.route = "deletePost" -> [q EXCEPT !.pc = "Post.delete"]
      [] q.route \in {"togglePublish", "getPostStats", "toggleLike"} ->
           [q EXCEPT !.pc = "Post.findById"]
      [] q.route \in {"createComment", "updateComment"} ->
           IF q.text = ""
           THEN Fail(q, AppError("Comment must be between 1 and 1000 characters", 400))
           ELSE [q EXCEPT !.pc = IF q.route = "createComment"
                                 THEN "Post.findById" ELSE "Comment.update"]
      [] q.route = "deleteComment" -> [q EXCEPT !.pc = "Comment.delete"]
      [] q.route = "getMostLikedPosts" ->
           [q EXCEPT !.timeframe = SelectedTimeframe(q.timeframe),
                     !.limitNum = LimitNum(q),
                     !.pc = "Like.getMostLikedPosts"]
      [] q.route = "deleteImage" ->
           IF q.imageUrl = Undefined \/ q.imageUrl = <<>>
           THEN Fail(q, AppError("Image URL is required", 400))
           ELSE IF getFileInfoFromUrl(q.imageUrl) = NoFile
           THEN Fail(q, AppError("Invalid image URL", 400))
           ELSE [q EXCEPT !.pc = "deleteUpload"]
      [] q.route = "register" ->
           IF ~validateEmail(q.email)
           THEN Fail(q, AppError("Please provide a valid email address", 400))
           ELSE IF q.password = ""
           THEN Fail(q, AppError("Password must be at least 6 characters long", 400))
           ELSE [q EXCEPT !.pc = "register.findByEmail"]
      [] q.route = "deleteAccount" ->
           IF q.password = ""
           THEN Fail(q, AppError("Please provide your password", 400))
           ELSE [q EXCEPT !.pc = "User.findByEmail"]
      [] q.route = "getPost" -> [q EXCEPT !.pc = "getPost"]
      [] q.route = "checkUserLike" ->
           IF q.user = 0
           THEN [Done(q, 200, "") EXCEPT !.liked = FALSE]
           ELSE [q EXCEPT !.pc = "Post.findById"]
      [] OTHER -> Fail(q, AppError("Route not found", 404))

(***************************************************************************)
(* Actions                                                                 *)
(***************************************************************************)
InFlight(route) == Cardinality({s \in Slots : req[s].route = route})

\* no run of toggles is under observation
HistNone == [id |-> 0, user |-> 0, n |-> 0, liked0 |-> FALSE, count0 |-> 0]

\* the observer of toggleLike runs: while slot r is the only request in
\* flight, hist names the (post, user) pair of the toggles answered 200 back
\* to back, how many of them there were (n), and the pair's like state and
\* the post's like count when the first of them arrived; any other request,
\* any other answer and any overlap of requests ends the run
Observe(r, q) ==
    LET alone == \A s \in Slots \ {r} : req[s].pc = "idle"
        arriving == req[r].pc = "idle"
    IN  IF q.route # "toggleLike" \/ ~alone THEN HistNone
        ELSE IF arriving
        THEN IF q.pc = "done" THEN HistNone
             ELSE IF hist.n = 1 /\ hist.id = q.id /\ hist.user = q.user THEN hist
             ELSE [id |-> q.id, user |-> q.user, n |-> 0,
                   liked0 |-> LikeRows(likes, q.id, q.user) > 0,
                   count0 |-> getCountByPostId(likes, q.id)]
        ELSE IF q.pc = "done"
        THEN IF q.status = 200 /\ hist.id # 0 /\ hist.n < 2
             THEN [hist EXCEPT !.n = @ + 1] ELSE HistNone
        ELSE hist

\* slot r moves on to q: a request that has its response leaves its slot,
\* and resp shows it until the next step
Emit(r, q) ==
    /\ IF q.pc = "done"
       THEN req' = [req EXCEPT ![r] = Blank] /\ resp' = q
       ELSE req' = [req EXCEPT ![r] = q] /\ resp' = Blank
    /\ hist' = Observe(r, q)

RECURSIVE SumViews(_, _)
SumViews(P, ids) ==
    IF ids = {} THEN 0
    ELSE LET p == CHOOSE x \in ids : TRUE
         IN  P[p].views + SumViews(P, ids \ {p})

\* the caps that keep the SERIAL counters and the view counters bounded
WithinBounds(q) ==
    /\ q.route = "createPost" => postSeq + InFlight("createPost") <= MaxPosts
    /\ q.route = "register" => userSeq + InFlight("register") <= MaxUsers
    /\ q.route = "createComment" =>
           commentSeq + InFlight("createComment") <= MaxComments
    /\ q.route = "getPost" =>
           SumViews(posts, DOMAIN posts) + InFlight("getPost") < MaxViews

\* the address of a registration that finds its email free
FreshEmail(n) == <<"u">> \o toDecimal(n) \o <<"@","x",".","i","o">>

\* register (its successful run, with an email no user has): a new users
\* row, and a token for it
Register ==
    /\ userSeq <= MaxUsers
    /\ users' = users \cup {userSeq}
    /\ emails' = With(emails, userSeq, FreshEmail(userSeq))
    /\ userSeq' = userSeq + 1
    /\ resp' = Blank
    /\ UNCHANGED <<posts, postSeq, comments, commentSeq, likes, likeAge, req, slugVars, hist, uploads>>

\* a request q arrives in slot r and runs through the authentication guard
\* of its route, which is one query; a guard that calls next() hands it to
\* checkOwnership or to the handler
Receive(r, Q) ==
    /\ req[r].pc = "idle"
    /\ \A s \in Slots : s < r => req[s].pc # "idle"
    /\ \E q \in Q :
         /\ WithinBounds(q)
         /\ LET g == IF AuthMode(q.route) = "mandatory" THEN verifyToken(q, users)
                     ELSE IF AuthMode(q.route) = "optional" THEN optionalAuth(q, users)
                     ELSE [status |-> 0, msg |-> "", user |-> 0]
                q1 == [q EXCEPT !.user = g.user]
            IN  Emit(r,
                          IF g.status # 0 THEN Done(q1, g.status, g.msg)
                          ELSE IF OwnershipKind(q.route) # "none"
                          THEN [q1 EXCEPT !.pc = "checkOwnership"]
                          ELSE HandlerEntry(q1))
    /\ UNCHANGED <<dbVars, slugVars, uploads>>

\* checkOwnership(kind): one query, then 404, 403 or the handler
CheckOwnership(r) ==
    /\ req[r].pc = "checkOwnership"
    /\ LET q == req[r]
           g == checkOwnership(OwnershipKind(q.route), q, posts, comments)
       IN  Emit(r,
                     IF g.status # 0 THEN Done(q, g.status, g.msg) ELSE HandlerEntry(q))
    /\ UNCHANGED <<dbVars, slugVars, uploads>>

\* Post.generateUniqueSlug whose probe never excludes a post
ProbeSlug_noExclude(r) ==
    /\ req[r].pc = "generateUniqueSlug"
    /\ LET q == req[r]
       IN  Emit(r,
                     IF SlugFree(posts, q.slug, 0)
                     THEN [q EXCEPT !.pc = IF q.route = "createPost"
                                           THEN "Post.create" ELSE "Post.update"]
                     ELSE [q EXCEPT !.slug = q.baseSlug \o <<"-">> \o toDecimal(q.counter),
                                    !.counter = q.counter + 1])
    /\ UNCHANGED <<dbVars, slugVars, uploads>>

\* Post.generateUniqueSlug: one probe of its loop; excludeId is the post id
\* under update, and none under create
ProbeSlug(r) ==
    /\ req[r].pc = "generateUniqueSlug"
    /\ LET q == req[r]
           excludeId == IF q.route = "updatePost" THEN q.id ELSE 0
       IN  Emit(r,
                     IF SlugFree(posts, q.slug, excludeId)
                     THEN [q EXCEPT !.pc = IF q.route = "createPost"
                                           THEN "Post.create" ELSE "Post.update"]
                     ELSE [q EXCEPT !.slug = q.baseSlug \o <<"-">> \o toDecimal(q.counter),
                                    !.counter = q.counter + 1])
    /\ UNCHANGED <<dbVars, slugVars, uploads>>

\* Post.create: the slug of the row is generateSlug(title); the slug that
\* createPost computed with generateUniqueSlug is not passed on
PostCreateSlug(q) == generateSlug(trim(q.title))

\* INSERT INTO posts without the UNIQUE constraint on slug
InsertPostAllowed_noUnique(P, slug) == TRUE

\* posts.slug UNIQUE, on insert
InsertPostAllowed(P, slug) == SlugFree(P, slug, 0)

\* Post.create: the INSERT; the SERIAL value is drawn whether or not the
\* row is stored
InsertPost(r) ==
    /\ req[r].pc = "Post.create"
    /\ LET q == req[r]
           slug == PostCreateSlug(q)
           row == [user_id |-> q.user, title |-> trim(q.title), slug |-> slug,
                   published |-> (q.published = "true"), views |-> 0,
                   body |-> trim(q.body), tags |-> q.tags]
       IN  /\ postSeq' = postSeq + 1
           /\ IF ~InsertPostAllowed(posts, slug)
              THEN /\ Emit(r, Fail(q, PgError("23505")))
                   /\ posts' = posts
              ELSE IF q.user \notin users
              THEN /\ Emit(r, Fail(q, PgError("23503")))
                   /\ posts' = posts
              ELSE /\ Emit(r,
                                [Done(q, 201, "Post created successfully")
                                   EXCEPT !.id = postSeq, !.slug = slug])
                   /\ posts' = With(posts, postSeq, row)
    /\ UNCHANGED <<users, emails, userSeq, comments, commentSeq, likes, likeAge, slugVars, uploads>>

\* UPDATE posts without the UNIQUE constraint on slug
UpdatePostAllowed_noUnique(P, slug, id) == TRUE

\* posts.slug UNIQUE, on update of row id
UpdatePostAllowed(P, slug, id) == SlugFree(P, slug, id)

\* Post.update: the UPDATE, reached from updatePost and from togglePublish
UpdatePostRow(r) ==
    /\ req[r].pc = "Post.update"
    /\ LET q == req[r]
           old == posts[q.id]
           new == [old EXCEPT
                     !.title = IF q.title # Undefined THEN trim(q.title) ELSE @,
                     !.slug = IF q.title # Undefined THEN q.slug ELSE @,
                     !.published = IF q.published # "undefined"
                                   THEN q.published = "true" ELSE @]
       IN  IF q.id \notin DOMAIN posts
           THEN /\ Emit(r, Fail(q, AppError("Post not found", 404)))
                /\ posts' = posts
           ELSE IF ~UpdatePostAllowed(posts, new.slug, q.id)
           THEN /\ Emit(r, Fail(q, PgError("23505")))
                /\ posts' = posts
           ELSE /\ Emit(r,
                             [Done(q, 200, "Post updated") EXCEPT !.cur = new.published])
                /\ posts' = With(posts, q.id, new)
    /\ UNCHANGED <<users, emails, userSeq, postSeq, comments, commentSeq, likes, likeAge, slugVars, uploads>>

\* Post.delete: the DELETE, and the cascade of the schema
DeletePostRow(r) ==
    /\ req[r].pc = "Post.delete"
    /\ LET q == req[r]
       IN  IF q.id \notin DOMAIN posts
           THEN /\ Emit(r, Fail(q, AppError("Post not found", 404)))
                /\ UNCHANGED <<posts, comments, likes, likeAge>>
           ELSE /\ Emit(r, Done(q, 200, "Post deleted successfully"))
                /\ posts' = Without(posts, {q.id})
                /\ comments' = CommentsAfterPostsGone(comments, {q.id})
                /\ likes' = LikesAfterPostsGone(likes, {q.id})
                /\ likeAge' = Aged(LikesAfterPostsGone(likes, {q.id}))
    /\ UNCHANGED <<users, emails, userSeq, postSeq, commentSeq, slugVars, uploads>>

\* createComment and toggleLike that do not look at the post's published flag
FindPost_noPublishedCheck(r) ==
    /\ req[r].pc = "Post.findById"
    /\ LET q == req[r]
           found == q.id \in DOMAIN posts
           post == posts[q.id]
       IN  Emit(r,
             IF ~found THEN Fail(q, AppError("Post not found", 404))
             ELSE CASE q.route = "togglePublish" ->
                         IF post.user_id # q.user
                         THEN Fail(q, AppError("Access denied", 403))
                         ELSE [q EXCEPT !.pc = "Post.update",
                                        !.published = IF post.published
                                                      THEN "false" ELSE "true"]
                    [] q.route = "getPostStats" ->
                         IF post.user_id # q.user
                         THEN Fail(q, AppError("Access denied", 403))
                         ELSE [Done(q, 200, "") EXCEPT !.cur = post.published,
                                  !.count = getCountByPostId(likes, q.id)]
                    [] q.route = "createComment" ->
                         [q EXCEPT !.pc = "Comment.create"]
                    [] q.route = "toggleLike" ->
                         [q EXCEPT !.pc = "Like.toggle"]
                    [] q.route \in {"getComments", "getPostLikes"} ->
                         [q EXCEPT !.pc = "list.page"]
                    [] OTHER -> [q EXCEPT !.pc = "Like.isLikedByUser"])
    /\ UNCHANGED <<dbVars, slugVars, uploads>>

\* Post.findById as the handlers of togglePublish, getPostStats, createComment,
\* toggleLike and checkUserLike use it, with the checks that follow it
FindPost(r) ==
    /\ req[r].pc = "Post.findById"
    /\ LET q == req[r]
           found == q.id \in DOMAIN posts
           post == posts[q.id]
       IN  Emit(r,
             IF ~found THEN Fail(q, AppError("Post not found", 404))
             ELSE CASE q.route = "togglePublish" ->
                         IF post.user_id # q.user
                         THEN Fail(q, AppError("Access denied", 403))
                         ELSE [q EXCEPT !.pc = "Post.update",
                                        !.published = IF post.published
                                                      THEN "false" ELSE "true"]
                    [] q.route = "getPostStats" ->
                         IF post.user_id # q.user
                         THEN Fail(q, AppError("Access denied", 403))
                         ELSE [Done(q, 200, "") EXCEPT !.cur = post.published,
                                  !.count = getCountByPostId(likes, q.id)]
                    [] q.route = "createComment" ->
                         IF ~post.published
                         THEN Fail(q, AppError("Cannot comment on unpublished post", 403))
                         ELSE [q EXCEPT !.pc = "Comment.create"]
                    [] q.route = "toggleLike" ->
                         IF ~post.published
                         THEN Fail(q, AppError("Cannot like unpublished post", 403))
                         ELSE [q EXCEPT !.pc = "Like.toggle"]
                    [] q.route \in {"getComments", "getPostLikes"} ->
                         [q EXCEPT !.pc = "list.page"]
                    [] OTHER -> [q EXCEPT !.pc = "Like.isLikedByUser"])
    /\ UNCHANGED <<dbVars, slugVars, uploads>>

\* Comment.create: the INSERT, with the foreign keys of the schema
InsertComment(r) ==
    /\ req[r].pc = "Comment.create"
    /\ LET q == req[r]
       IN  /\ commentSeq' = commentSeq + 1
           /\ IF q.id \notin DOMAIN posts \/ q.user \notin users
              THEN /\ Emit(r, Fail(q, PgError("23503")))
                   /\ comments' = comments
              ELSE /\ Emit(r,
                                [q EXCEPT !.pc = "Comment.findById", !.count = commentSeq])
                   /\ comments' = With(comments, commentSeq,
                                       [post_id |-> q.id, user_id |-> q.user,
                                        text |-> q.text])
    /\ UNCHANGED <<users, emails, userSeq, posts, postSeq, likes, likeAge, slugVars, uploads>>

\* createComment's read of the new comment, and its 201 response
FindComment(r) ==
    /\ req[r].pc = "Comment.findById"
    /\ Emit(r, Done(req[r], 201, "Comment created successfully"))
    /\ UNCHANGED <<dbVars, slugVars, uploads>>

\* Comment.update
UpdateComment(r) ==
    /\ req[r].pc = "Comment.update"
    /\ LET q == req[r]
       IN  IF q.id \notin DOMAIN comments
           THEN /\ Emit(r, Fail(q, AppError("Comment not found", 404)))
                /\ comments' = comments
           ELSE /\ Emit(r, Done(q, 200, "Comment updated successfully"))
                /\ comments' = With(comments, q.id, [comments[q.id] EXCEPT !.text = q.text])
    /\ UNCHANGED <<users, emails, userSeq, posts, postSeq, commentSeq, likes, likeAge, slugVars, uploads>>

\* Comment.delete
DeleteComment(r) ==
    /\ req[r].pc = "Comment.delete"
    /\ LET q == req[r]
       IN  IF q.id \notin DOMAIN comments
           THEN /\ Emit(r, Fail(q, AppError("Comment not found", 404)))
                /\ comments' = comments
           ELSE /\ Emit(r, Done(q, 200, "Comment deleted successfully"))
                /\ comments' = Without(comments, {q.id})
    /\ UNCHANGED <<users, emails, userSeq, posts, postSeq, commentSeq, likes, likeAge, slugVars, uploads>>

\* Like.toggle: the SELECT of the existing like
SelectLike(r) ==
    /\ req[r].pc = "Like.toggle"
    /\ Emit(r,
                 [req[r] EXCEPT !.pc = "Like.write",
                                !.cur = LikeRows(likes, req[r].id, req[r].user) > 0])
    /\ UNCHANGED <<dbVars, slugVars, uploads>>

\* Like.toggle whose unlike reports 'unliked' and leaves the row
toggleWrite_noDelete(L, existing, p, u) ==
    IF existing
    THEN [likes |-> L, liked |-> FALSE, action |-> "unliked", err |-> ""]
    ELSE IF LikeRows(L, p, u) > 0
    THEN [likes |-> L, liked |-> FALSE, action |-> "", err |-> "23505"]
    ELSE [likes |-> With(L, <<p, u>>, 1), liked |-> TRUE, action |-> "liked",
          err |-> ""]

\* Like.toggle on a likes table without UNIQUE(post_id, user_id)
toggleWrite_noUnique(L, existing, p, u) ==
    IF existing
    THEN [likes |-> Without(L, {<<p, u>>}), liked |-> FALSE, action |-> "unliked",
          err |-> ""]
    ELSE [likes |-> With(L, <<p, u>>, LikeRows(L, p, u) + 1), liked |-> TRUE,
          action |-> "liked", err |-> ""]

\* Like.toggle that deletes when no row was found and inserts when one was
toggleWrite_swapped(L, existing, p, u) ==
    IF ~existing
    THEN [likes |-> Without(L, {<<p, u>>}), liked |-> FALSE, action |-> "unliked",
          err |-> ""]
    ELSE [likes |-> With(L, <<p, u>>, 1), liked |-> TRUE, action |-> "liked",
          err |-> ""]

\* Like.toggle: the DELETE or the INSERT that follows the SELECT; the INSERT
\* is subject to UNIQUE(post_id, user_id)
toggleWrite(L, existing, p, u) ==
    IF existing
    THEN [likes |-> Without(L, {<<p, u>>}), liked |-> FALSE, action |-> "unliked",
          err |-> ""]
    ELSE IF LikeRows(L, p, u) > 0
    THEN [likes |-> L, liked |-> FALSE, action |-> "", err |-> "23505"]
    ELSE [likes |-> With(L, <<p, u>>, 1), liked |-> TRUE, action |-> "liked",
          err |-> ""]

WriteLike(r) ==
    /\ req[r].pc = "Like.write"
    /\ LET q == req[r]
           w == toggleWrite(likes, q.cur, q.id, q.user)
       IN  IF w.err # ""
           THEN /\ Emit(r, Fail(q, PgError(w.err)))
                /\ likes' = likes
                /\ likeAge' = likeAge
           ELSE IF w.liked /\ (q.id \notin DOMAIN posts \/ q.user \notin users)
           THEN /\ Emit(r, Fail(q, PgError("23503")))
                /\ likes' = likes
                /\ likeAge' = likeAge
           ELSE /\ Emit(r,
                             [q EXCEPT !.pc = "Like.getCountByPostId",
                                       !.liked = w.liked, !.action = w.action])
                /\ likes' = w.likes
                /\ likeAge' = Aged(w.likes)
    /\ UNCHANGED <<users, emails, userSeq, posts, postSeq, comments, commentSeq, slugVars, uploads>>

\* toggleLike's read of the like count, and its response
CountLikes(r) ==
    /\ req[r].pc = "Like.getCountByPostId"
    /\ Emit(r,
                 [Done(req[r], 200, "Post " \o req[r].action \o " successfully")
                    EXCEPT !.count = getCountByPostId(likes, req[r].id)])
    /\ UNCHANGED <<dbVars, slugVars, uploads>>

\* Like.isLikedByUser, and checkUserLike's response
IsLikedByUser(r) ==
    /\ req[r].pc = "Like.isLikedByUser"
    /\ Emit(r,
                 [Done(req[r], 200, "")
                    EXCEPT !.liked = LikeRows(likes, req[r].id, req[r].user) > 0])
    /\ UNCHANGED <<dbVars, slugVars, uploads>>

\* deleteAccount: User.findByEmail(req.user.email) and the password check;
\* the email of a user never changes, so the row is found while the user exists
FindByEmail(r) ==
    /\ req[r].pc = "User.findByEmail"
    /\ LET q == req[r]
       IN  Emit(r,
                     IF q.user \notin users
                     THEN Fail(q, TypeError("Cannot read properties of null"))
                     ELSE IF q.password # "right"
                     THEN Fail(q, AppError("Invalid password", 401))
                     ELSE [q EXCEPT !.pc = "User.delete"])
    /\ UNCHANGED <<dbVars, slugVars, uploads>>

\* User.delete: the DELETE, and the cascade of the schema
DeleteUser(r) ==
    /\ req[r].pc = "User.delete"
    /\ LET q == req[r]
       IN  IF q.user \notin users
           THEN /\ Emit(r, Fail(q, AppError("User not found", 404)))
                /\ UNCHANGED <<users, emails, posts, comments, likes, likeAge>>
           ELSE /\ Emit(r, Done(q, 200, "Account deleted successfully"))
                /\ users' = users \ {q.user}
                /\ emails' = Without(emails, {q.user})
                /\ posts' = Without(posts, PostsOfUser(posts, q.user))
                /\ comments' = CommentsAfterUserGone(comments, posts, q.user)
                /\ likes' = LikesAfterUserGone(likes, posts, q.user)
                /\ likeAge' = Aged(LikesAfterUserGone(likes, posts, q.user))
    /\ UNCHANGED <<userSeq, postSeq, commentSeq, slugVars, uploads>>

\* /^\d+$/.test(identifier)
IsNumeric(s) == s # <<>> /\ \A i \in 1..Len(s) : s[i] \in Range(Digits)

\* Post.findBySlug: published posts only
findBySlug(P, slug) == {p \in DOMAIN P : P[p].slug = slug /\ P[p].published}

\* getPost: Post.findById for a numeric identifier, Post.findBySlug otherwise
GetPostFind(r) ==
    /\ req[r].pc = "getPost"
    /\ LET q == req[r]
           hit == IF IsNumeric(q.ident)
                  THEN {parseInt(q.ident)} \cap DOMAIN posts
                  ELSE findBySlug(posts, q.ident)
       IN  Emit(r,
                     IF hit = {} THEN Fail(q, AppError("Post not found", 404))
                     ELSE LET p == CHOOSE x \in hit : TRUE
                          IN  [q EXCEPT !.pc = "Post.incrementViews", !.id = p,
                                        !.cur = posts[p].published,
                                        !.count = posts[p].views])
    /\ UNCHANGED <<dbVars, slugVars, uploads>>

\* Post.incrementViews that writes back the counter getPost read, plus one
IncrementViews_writeBack(r) ==
    /\ req[r].pc = "Post.incrementViews"
    /\ LET q == req[r]
       IN  /\ Emit(r, Done(q, 200, ""))
           /\ posts' = IF q.id \in DOMAIN posts
                       THEN With(posts, q.id, [posts[q.id] EXCEPT !.views = q.count + 1])
                       ELSE posts
    /\ UNCHANGED <<users, emails, userSeq, postSeq, comments, commentSeq, likes, likeAge, slugVars, uploads>>

\* Post.incrementViews, and getPost's response
IncrementViews(r) ==
    /\ req[r].pc = "Post.incrementViews"
    /\ LET q == req[r]
       IN  /\ Emit(r, Done(q, 200, ""))
           /\ posts' = IF q.id \in DOMAIN posts
                       THEN With(posts, q.id, [posts[q.id] EXCEPT !.views = @ + 1])
                       ELSE posts
    /\ UNCHANGED <<users, emails, userSeq, postSeq, comments, commentSeq, likes, likeAge, slugVars, uploads>>

\* ids in ORDER BY ... DESC and ASC; created_at follows the SERIAL id
RECURSIVE Desc(_)
Desc(S) ==
    IF S = {} THEN <<>>
    ELSE LET m == CHOOSE x \in S : \A y \in S : y <= x
         IN  <<m>> \o Desc(S \ {m})

RECURSIVE Asc(_)
Asc(S) ==
    IF S = {} THEN <<>>
    ELSE LET m == CHOOSE x \in S : \A y \in S : x <= y
         IN  <<m>> \o Asc(S \ {m})

\* tags.split(',')
RECURSIVE splitComma(_)
splitComma(s) ==
    IF \A i \in 1..Len(s) : s[i] # "," THEN <<s>>
    ELSE LET k == CHOOSE i \in 1..Len(s) : s[i] = "," /\ \A j \in 1..(i - 1) : s[j] # ","
         IN  <<SubSeq(s, 1, k - 1)>> \o splitComma(SubSeq(s, k + 1, Len(s)))

\* getPosts: search mode is taken when the search parameter is a non-empty
\* string
SearchOn(q) == q.search # Undefined /\ q.search # <<>>

\* getPosts: filters.tags, the trimmed non-empty pieces of the tags parameter
\* (the empty set when findAll applies no tag filter)
FilterTags(q) ==
    IF q.qtags = Undefined \/ q.qtags = <<>> THEN {}
    ELSE {trim(t) : t \in Range(splitComma(q.qtags))} \ {<<>>}

\* getPosts: filters.userId = parseInt(author) when author is a non-empty
\* string; NaN stands for no filter too, as findAll tests `if (userId)`
FilterUser(q) ==
    IF q.author = Undefined \/ q.author = <<>> THEN NaN
    ELSE IF jsParseInt(q.author) = Num(0) THEN NaN
    ELSE jsParseInt(q.author)

\* Post.search: the pattern `%${searchTerm}%` against title and body (excerpt
\* is not kept in the model: a NULL excerpt matches nothing)
SearchHit(row, term) ==
    LET pattern == <<"%">> \o term \o <<"%">>
    IN  ilike(row.title, pattern) \/ ilike(row.body, pattern)

\* Post.findAll whose tag filter asks for every tag of the filter
FilterHit_allTags(row, q) ==
    /\ row.published
    /\ FilterTags(q) # {} => FilterTags(q) \subseteq row.tags
    /\ FilterUser(q) # NaN => Num(row.user_id) = FilterUser(q)

\* Post.findAll: the WHERE clause built from the filters
FilterHit(row, q) ==
    /\ row.published
    /\ FilterTags(q) # {} => row.tags \cap FilterTags(q) # {}
    /\ FilterUser(q) # NaN => Num(row.user_id) = FilterUser(q)

\* the rows the page query of a list accessor selects, in its order, before
\* LIMIT and OFFSET (the likers of a post are given in the order of their
\* user ids, and liked posts in the order of their ids)
PageRows(q) ==
    CASE q.route = "getPosts" /\ SearchOn(q) ->
           Desc({p \in DOMAIN posts : /\ posts[p].published
                                      /\ posts[p].user_id \in users
                                      /\ SearchHit(posts[p], q.search)})
      [] q.route = "getPosts" /\ ~SearchOn(q) ->
           Desc({p \in DOMAIN posts : posts[p].user_id \in users /\ FilterHit(posts[p], q)})
      [] q.route = "getUserPosts" ->
           Desc({p \in DOMAIN posts : posts[p].user_id = q.user})
      [] q.route = "getComments" ->
           Asc({c \in DOMAIN comments : /\ comments[c].post_id = q.id
                                        /\ comments[c].user_id \in users})
      [] q.route = "getUserComments" ->
           Desc({c \in DOMAIN comments : /\ comments[c].user_id = q.user
                                         /\ comments[c].post_id \in DOMAIN posts})
      [] q.route = "getRecentComments" ->
           Desc({c \in DOMAIN comments : /\ comments[c].user_id \in users
                                         /\ comments[c].post_id \in DOMAIN posts
                                         /\ posts[comments[c].post_id].published})
      [] q.route = "getPostLikes" ->
           Desc({u \in users : LikeRows(likes, q.id, u) > 0})
      [] q.route = "getUserLikedPosts" ->
           Desc({p \in DOMAIN posts : /\ LikeRows(likes, p, q.user) > 0
                                      /\ posts[p].published
                                      /\ posts[p].user_id \in users})
      [] OTHER -> <<>>

\* the COUNT(*) of the count query of a list accessor
CountRows(q) ==
    CASE q.route = "getPosts" /\ SearchOn(q) ->
           Cardinality({p \in DOMAIN posts : /\ posts[p].published
                                             /\ SearchHit(posts[p], q.search)})
      [] q.route = "getPosts" /\ ~SearchOn(q) ->
           Cardinality({p \in DOMAIN posts : FilterHit(posts[p], q)})
      [] q.route = "getUserPosts" ->
           Cardinality({p \in DOMAIN posts : posts[p].user_id = q.user})
      [] q.route = "getComments" ->
           Cardinality({c \in DOMAIN comments : comments[c].post_id = q.id})
      [] q.route = "getUserComments" ->
           Cardinality({c \in DOMAIN comments : comments[c].user_id = q.user})
      [] q.route = "getRecentComments" ->
           Cardinality({c \in DOMAIN comments : /\ comments[c].post_id \in DOMAIN posts
                                                /\ posts[comments[c].post_id].published})
      [] q.route = "getPostLikes" -> getCountByPostId(likes, q.id)
      [] q.route = "getUserLikedPosts" ->
           SumRows(likes, {k \in DOMAIN likes : /\ k[2] = q.user
                                                /\ k[1] \in DOMAIN posts
                                                /\ posts[k[1]].published})
      [] OTHER -> 0

\* LIMIT limit OFFSET offset
Slice(rows, offset, limit) ==
    SubSeq(rows, offset + 1, IF offset + limit < Len(rows) THEN offset + limit ELSE Len(rows))

\* Math.floor(total / limit), in place of Math.ceil
Pages_floor(total, limit) == total \div limit

\* Math.ceil(total / limit)
Pages(total, limit) == (total + limit - 1) \div limit

\* a list accessor: the page query; a NaN limit or offset is not an integer
\* to the storage, which answers with invalid input syntax
ListPage(r) ==
    /\ req[r].pc = "list.page"
    /\ LET q == req[r]
       IN  Emit(r,
             IF q.pageNum = NaN \/ q.limitNum = NaN
             THEN Fail(q, PgError("22P02"))
             ELSE [q EXCEPT !.pc = "list.count",
                            !.items = Slice(PageRows(q),
                                            (q.pageNum[1] - 1) * q.limitNum[1],
                                            q.limitNum[1])])
    /\ UNCHANGED <<dbVars, slugVars, uploads>>

\* a list accessor: the count query, the pagination record and the response
ListCount(r) ==
    /\ req[r].pc = "list.count"
    /\ LET q == req[r]
           total == CountRows(q)
       IN  Emit(r,
             [Done(q, 200, "") EXCEPT !.total = total,
                                      !.pages = Pages(total, q.limitNum[1])])
    /\ UNCHANGED <<dbVars, slugVars, uploads>>

\* register that stores the email as it was given
RegisterEmail_asGiven(q) == q.email

\* register: the email it looks up and stores, email.toLowerCase()
RegisterEmail(q) == toLowerCase(q.email)

\* User.findByEmail
findByEmail(email) == {u \in users : emails[u] = email}

\* register: User.findByEmail, and the 409 when a user has the email
RegisterLookup(r) ==
    /\ req[r].pc = "register.findByEmail"
    /\ LET q == req[r]
       IN  Emit(r,
             IF findByEmail(RegisterEmail(q)) # {}
             THEN Fail(q, AppError("User already exists with this email", 409))
             ELSE [q EXCEPT !.pc = "User.create"])
    /\ UNCHANGED <<dbVars, slugVars, uploads>>

\* User.create: the INSERT, subject to users.email UNIQUE; the SERIAL value
\* is drawn whether or not the row is stored
RegisterInsert(r) ==
    /\ req[r].pc = "User.create"
    /\ LET q == req[r]
       IN  /\ userSeq' = userSeq + 1
           /\ IF findByEmail(RegisterEmail(q)) # {}
              THEN /\ Emit(r, Fail(q, PgError("23505")))
                   /\ UNCHANGED <<users, emails>>
              ELSE /\ Emit(r,
                         [Done(q, 201, "User registered successfully")
                            EXCEPT !.id = userSeq, !.user = userSeq])
                   /\ users' = users \cup {userSeq}
                   /\ emails' = With(emails, userSeq, RegisterEmail(q))
    /\ UNCHANGED <<posts, postSeq, comments, commentSeq, likes, likeAge, slugVars, uploads>>

\* deleteImage: await deleteUpload(fileInfo), then the answer
DeleteUpload(r) ==
    /\ req[r].pc = "deleteUpload"
    /\ \E threw \in BOOLEAN :
         LET q == req[r]
             d == deleteUpload(getFileInfoFromUrl(q.imageUrl), threw)
         IN  /\ uploads' = d.uploads
             /\ Emit(r, IF d.err # NoError THEN [Fail(q, d.err) EXCEPT !.logged = d.logged]
                        ELSE [Done(q, 200, "Image deleted successfully")
                                EXCEPT !.logged = d.logged])
    /\ UNCHANGED <<dbVars, slugVars>>

\* Like.getMostLikedPosts: the rows of likes the WHERE clause keeps, all of
\* them for 'all' (timeframe null), else those created within the interval
InTimeframe(k, timeframe) ==
    CASE timeframe = "day" -> likeAge[k] < 1
      [] timeframe = "week" -> likeAge[k] < 2
      [] timeframe = "month" -> likeAge[k] < 3
      [] OTHER -> TRUE

\* likes_count: COUNT(DISTINCT l.id) over the rows kept
LikesCount(p, timeframe) ==
    SumRows(likes, {k \in DOMAIN likes : k[1] = p /\ InTimeframe(k, timeframe)})

\* ORDER BY likes_count DESC, p.created_at DESC
RECURSIVE ByLikesDesc(_, _)
ByLikesDesc(S, timeframe) ==
    IF S = {} THEN <<>>
    ELSE LET m == CHOOSE x \in S : \A y \in S :
                    \/ LikesCount(y, timeframe) < LikesCount(x, timeframe)
                    \/ (LikesCount(y, timeframe) = LikesCount(x, timeframe) /\ y <= x)
         IN  <<m>> \o ByLikesDesc(S \ {m}, timeframe)

\* the HAVING clause that lets posts without a counted like through
MostLikedRows_noHaving(timeframe) ==
    ByLikesDesc({p \in DOMAIN posts : posts[p].published /\ posts[p].user_id \in users},
                timeframe)

\* Like.getMostLikedPosts: published posts with a counted like, most liked first
MostLikedRows(timeframe) ==
    ByLikesDesc({p \in DOMAIN posts : /\ posts[p].published
                                      /\ posts[p].user_id \in users
                                      /\ LikesCount(p, timeframe) > 0},
                timeframe)

\* getMostLikedPosts: the query and the response; a NaN limit is not an
\* integer to the storage
MostLiked(r) ==
    /\ req[r].pc = "Like.getMostLikedPosts"
    /\ LET q == req[r]
       IN  Emit(r,
             IF q.limitNum = NaN
             THEN Fail(q, PgError("22P02"))
             ELSE [Done(q, 200, "")
                     EXCEPT !.items = Slice(MostLikedRows(q.timeframe), 0, q.limitNum[1])])
    /\ UNCHANGED <<dbVars, slugVars, uploads>>

\* time passes: a row of likes outlives the next interval
Age ==
    /\ \E k \in DOMAIN likeAge :
         /\ likeAge[k] < MaxAge
         /\ likeAge' = [likeAge EXCEPT ![k] = @ + 1]
    /\ resp' = Blank
    /\ UNCHANGED <<users, emails, userSeq, posts, postSeq, comments, commentSeq, likes,
                   req, slugVars, hist, uploads>>

(***************************************************************************)
(* Inputs                                                                  *)
(***************************************************************************)
T_Hello == <<"H","e","l","l","o",","," ","W","o","r","l","d","!">>
T_hello == <<"h","e","l","l","o"," ","w","o","r","l","d">>
T_Hello1 == <<"H","e","l","l","o"," ","W","o","r","l","d"," ","1">>

\* tokens are issued by register and login only: a verifiable token names a
\* user id that was registered at some time
Issued == 1..(userSeq - 1)

GoodCreds == {[hdr |-> "bearer", tok |-> "valid", tokUid |-> u] : u \in Issued}

BadCreds ==
    {[hdr |-> "none", tok |-> "empty", tokUid |-> 0],
     [hdr |-> "basic", tok |-> "empty", tokUid |-> 0],
     [hdr |-> "bearer", tok |-> "empty", tokUid |-> 0],
     [hdr |-> "bearer", tok |-> "malformed", tokUid |-> 0]}
    \cup {[hdr |-> "bearer", tok |-> "expired", tokUid |-> u] : u \in Issued}

NewReq(route, cred) ==
    [Blank EXCEPT !.route = route, !.hdr = cred.hdr, !.tok = cred.tok,
                  !.tokUid = cred.tokUid]

PostIds == 1..MaxPosts
CommentIds == 1..MaxComments

\* the requests of the guard specification
AuthRequests ==
    LET creds == GoodCreds \cup BadCreds IN
    {[NewReq("deleteAccount", c) EXCEPT !.password = "right"] : c \in creds}
    \cup {[NewReq("createPost", c) EXCEPT !.title = T_Hello, !.published = "true"] :
            c \in creds}
    \cup {[NewReq("checkUserLike", c) EXCEPT !.id = p] : c \in creds, p \in {1}}
    \cup {[NewReq("getPost", c) EXCEPT !.ident = i] :
            c \in IF SumViews(posts, DOMAIN posts) + InFlight("getPost") < MaxAuthViews
                   THEN creds ELSE {},
            i \in {<<"1">>, generateSlug(T_Hello)}}

InitReq == req = [r \in Slots |-> Blank] /\ resp = Blank /\ hist = HistNone

InitIdleSlug ==
    /\ sTitle = <<>>
    /\ sSlug = <<>>
    /\ sSlug2 = <<>>
    /\ sPc = "off"

\* no image stored
InitUploads == uploads = {}

Init == InitDbEmpty /\ InitReq /\ InitIdleSlug /\ InitUploads

NextAuth ==
    \/ Register
    \/ \E r \in Slots : Receive(r, AuthRequests)
    \/ \E r \in Slots : ProbeSlug(r)
    \/ \E r \in Slots : InsertPost(r)
    \/ \E r \in Slots : FindPost(r)
    \/ \E r \in Slots : IsLikedByUser(r)
    \/ \E r \in Slots : FindByEmail(r)
    \/ \E r \in Slots : DeleteUser(r)
    \/ \E r \in Slots : GetPostFind(r)
    \/ \E r \in Slots : IncrementViews(r)

SpecAuth == Init /\ [][NextAuth]_vars

\* the requests of the ownership specification
OwnPostIds == 1..MaxOwnPosts

OwnRequests ==
    LET creds == GoodCreds \cup {[hdr |-> "none", tok |-> "empty", tokUid |-> 0]} IN
    {[NewReq("createPost", c) EXCEPT !.title = T_Hello, !.published = "true"] :
        c \in IF postSeq <= MaxOwnPosts THEN creds ELSE {}}
    \cup {[NewReq("updatePost", c) EXCEPT !.id = p, !.published = "false"] :
            c \in creds, p \in OwnPostIds}
    \cup {[NewReq(rt, c) EXCEPT !.id = p] :
            rt \in {"deletePost", "togglePublish"}, c \in creds, p \in OwnPostIds}
    \cup {[NewReq("createComment", c) EXCEPT !.id = p, !.text = "first"] :
            c \in creds, p \in OwnPostIds}
    \cup {[NewReq("updateComment", c) EXCEPT !.id = k, !.text = "edited"] :
            c \in creds, k \in CommentIds}
    \cup {[NewReq("deleteComment", c) EXCEPT !.id = k] : c \in creds, k \in CommentIds}
    \cup {[NewReq("deleteAccount", c) EXCEPT !.password = "right"] : c \in creds}

NextOwn ==
    \/ Register
    \/ \E r \in Slots : Receive(r, OwnRequests)
    \/ \E r \in Slots : CheckOwnership(r)
    \/ \E r \in Slots : ProbeSlug(r)
    \/ \E r \in Slots : InsertPost(r)
    \/ \E r \in Slots : UpdatePostRow(r)
    \/ \E r \in Slots : DeletePostRow(r)
    \/ \E r \in Slots : FindPost(r)
    \/ \E r \in Slots : InsertComment(r)
    \/ \E r \in Slots : FindComment(r)
    \/ \E r \in Slots : UpdateComment(r)
    \/ \E r \in Slots : DeleteComment(r)
    \/ \E r \in Slots : FindByEmail(r)
    \/ \E r \in Slots : DeleteUser(r)

SpecOwn == Init /\ [][NextOwn]_vars

\* the requests of the slug specification: posts created, retitled and
\* deleted by their owners
OwnerCreds == {c \in GoodCreds : c.tokUid = 1}

PostRequests ==
    {[NewReq("createPost", c) EXCEPT !.title = t] :
        c \in OwnerCreds, t \in {T_Hello, T_Hello1}}
    \cup {[NewReq("updatePost", c) EXCEPT !.id = p, !.title = t] :
            c \in OwnerCreds, p \in PostIds, t \in {T_hello, T_Hello1}}
    \cup {[NewReq("deletePost", c) EXCEPT !.id = p] : c \in OwnerCreds, p \in PostIds}

NextPosts ==
    \/ Register
    \/ \E r \in Slots : Receive(r, PostRequests)
    \/ \E r \in Slots : CheckOwnership(r)
    \/ \E r \in Slots : ProbeSlug(r)
    \/ \E r \in Slots : InsertPost(r)
    \/ \E r \in Slots : UpdatePostRow(r)
    \/ \E r \in Slots : DeletePostRow(r)

SpecPosts == Init /\ [][NextPosts]_vars

\* the requests of the sequential specification
SeqRequests ==
    {[NewReq("createPost", c) EXCEPT !.title = t, !.published = "true"] :
        c \in GoodCreds, t \in {T_Hello, T_hello}}
    \cup {[NewReq("toggleLike", c) EXCEPT !.id = p] : c \in GoodCreds, p \in PostIds}
    \cup {[NewReq("togglePublish", c) EXCEPT !.id = p] : c \in GoodCreds, p \in PostIds}
    \cup {[NewReq("updatePost", c) EXCEPT !.id = p, !.title = T_Hello1] :
            c \in GoodCreds, p \in PostIds}

\* a request arrives while no other is in flight
ReceiveAlone(r, Q) ==
    /\ \A s \in Slots : req[s].pc = "idle"
    /\ Receive(r, Q)

NextSeq ==
    \/ Register
    \/ \E r \in Slots : ReceiveAlone(r, SeqRequests)
    \/ \E r \in Slots : CheckOwnership(r)
    \/ \E r \in Slots : ProbeSlug(r)
    \/ \E r \in Slots : InsertPost(r)
    \/ \E r \in Slots : UpdatePostRow(r)
    \/ \E r \in Slots : FindPost(r)
    \/ \E r \in Slots : SelectLike(r)
    \/ \E r \in Slots : WriteLike(r)
    \/ \E r \in Slots : CountLikes(r)

SpecSeq == Init /\ [][NextSeq]_vars

\* the requests of the list specification: posts, comments and likes are
\* made, and every list endpoint is asked for pages of them
PageParams == {Undefined, <<"2">>, <<"0">>, <<"a","b","c">>}
LimitParams == {Undefined, <<"1">>, <<"-","5">>, <<"1","0","0","0">>, <<"x">>}

ListRequests ==
    {[NewReq("createPost", c) EXCEPT !.title = t, !.published = "true"] :
        c \in OwnerCreds, t \in {T_Hello, T_Hello1}}
    \cup {[NewReq("createComment", c) EXCEPT !.id = 1, !.text = "first"] : c \in GoodCreds}
    \cup {[NewReq("toggleLike", c) EXCEPT !.id = 1] : c \in GoodCreds}
    \cup {[NewReq(rt, c) EXCEPT !.page = pg, !.limit = lm] :
            rt \in {"getUserPosts", "getUserComments", "getUserLikedPosts"},
            c \in OwnerCreds, pg \in PageParams, lm \in LimitParams}
    \cup {[NewReq(rt, [hdr |-> "none", tok |-> "empty", tokUid |-> 0])
              EXCEPT !.page = pg, !.limit = lm, !.id = 1] :
            rt \in {"getPosts", "getComments", "getRecentComments", "getPostLikes"},
            pg \in PageParams, lm \in LimitParams}

NextList ==
    \/ Register
    \/ \E r \in Slots : ReceiveAlone(r, ListRequests)
    \/ \E r \in Slots : ProbeSlug(r)
    \/ \E r \in Slots : InsertPost(r)
    \/ \E r \in Slots : FindPost(r)
    \/ \E r \in Slots : InsertComment(r)
    \/ \E r \in Slots : FindComment(r)
    \/ \E r \in Slots : SelectLike(r)
    \/ \E r \in Slots : WriteLike(r)
    \/ \E r \in Slots : CountLikes(r)
    \/ \E r \in Slots : ListPage(r)
    \/ \E r \in Slots : ListCount(r)

SpecList == Init /\ [][NextList]_vars

\* the requests of the post list specification: posts with and without
\* tags, published or not, and the post list asked with search terms, tag
\* filters and author filters
T_Other == <<"O","t","h","e","r">>
TagA == <<"a">>
NoCred == [hdr |-> "none", tok |-> "empty", tokUid |-> 0]

FindRequests ==
    {[NewReq("createPost", c) EXCEPT !.title = t, !.published = pb, !.tags = tg] :
        c \in GoodCreds, t \in {T_Hello, T_Other}, pb \in {"true", "false"},
        tg \in {{}, {TagA}}}
    \cup {[NewReq("getPosts", NoCred)
              EXCEPT !.search = s, !.qtags = tg, !.author = a, !.page = pg, !.limit = lm] :
            s \in {Undefined, <<"h","e","l","l","o">>, <<"_">>},
            tg \in {Undefined, <<"b",","," ","a">>, <<",">>},
            a \in {Undefined, <<"2">>, <<"0">>},
            pg \in {Undefined, <<"2">>},
            lm \in {Undefined, <<"1">>}}

NextFind ==
    \/ Register
    \/ \E r \in Slots : ReceiveAlone(r, FindRequests)
    \/ \E r \in Slots : ProbeSlug(r)
    \/ \E r \in Slots : InsertPost(r)
    \/ \E r \in Slots : ListPage(r)
    \/ \E r \in Slots : ListCount(r)

SpecFind == Init /\ [][NextFind]_vars

\* the errors given to the translator: every combination of a storage code,
\* an error name and a carried status code
ErrCodes == {"", "23505", "23503", "22P02", "22003"}
ErrNames == {"Error", "error", "TypeError", "JsonWebTokenError", "TokenExpiredError",
             "ValidationError"}
ErrStatusCodes == {0, 400, 401, 403, 404, 409, 422}

ErrMessages == {"failed", ""}

Errors ==
    {[statusCode |-> s, code |-> c, name |-> n, message |-> m] :
        s \in ErrStatusCodes, c \in ErrCodes, n \in ErrNames, m \in ErrMessages}

\* NODE_ENV of the process
NodeEnvs == {"production", "development", "test"}

\* a handler has called next(err)
InitErr ==
    /\ InitDbEmpty
    /\ InitUploads
    /\ InitIdleSlug
    /\ resp = Blank
    /\ hist = HistNone
    /\ \E e \in Errors, env \in NodeEnvs :
         req = [r \in Slots |->
                  IF r = 1
                  THEN [Blank EXCEPT !.route = "raise", !.pc = "next(err)", !.err = e,
                                     !.env = env]
                  ELSE Blank]

\* errorHandler answers the request of slot r
Translate(r) ==
    /\ req[r].pc = "next(err)"
    /\ Emit(r, Fail(req[r], req[r].err))
    /\ UNCHANGED <<dbVars, slugVars, uploads>>

NextErr == \E r \in Slots : Translate(r)

SpecErr == InitErr /\ [][NextErr]_vars

\* the requests of the publication specification: one post, published or
\* not and toggled by its owner, while both users comment on it and like it
PubRequests ==
    {[NewReq("createPost", c) EXCEPT !.title = T_Hello, !.published = pb] :
        c \in OwnerCreds, pb \in {"true", "false"}}
    \cup {[NewReq("togglePublish", c) EXCEPT !.id = 1] : c \in OwnerCreds}
    \cup {[NewReq("createComment", c) EXCEPT !.id = 1, !.text = "first"] :
            c \in GoodCreds \cup {NoCred}}
    \cup {[NewReq("toggleLike", c) EXCEPT !.id = 1] : c \in GoodCreds \cup {NoCred}}

NextPub ==
    \/ Register
    \/ \E r \in Slots : Receive(r, PubRequests)
    \/ \E r \in Slots : CheckOwnership(r)
    \/ \E r \in Slots : ProbeSlug(r)
    \/ \E r \in Slots : InsertPost(r)
    \/ \E r \in Slots : UpdatePostRow(r)
    \/ \E r \in Slots : FindPost(r)
    \/ \E r \in Slots : InsertComment(r)
    \/ \E r \in Slots : FindComment(r)
    \/ \E r \in Slots : SelectLike(r)
    \/ \E r \in Slots : WriteLike(r)
    \/ \E r \in Slots : CountLikes(r)

SpecPub == Init /\ [][NextPub]_vars

\* generateUniqueSlug run alone: the slugs the posts in store may hold, a
\* store of up to MaxProbePosts posts with distinct slugs, and one call, from
\* createPost or from the update of a post in store
ProbeSlugs ==
    {generateSlug(T_Hello), generateSlug(T_Hello) \o <<"-","1">>,
     generateSlug(T_Hello) \o <<"-","2">>, generateSlug(T_Other)}

ProbeRow(slug) ==
    [user_id |-> 1, title |-> T_Hello, slug |-> slug, published |-> TRUE, views |-> 0,
     body |-> B_Lorem, tags |-> {}]

InitProbe ==
    /\ users = {1}
    /\ emails = With(Empty, 1, FreshEmail(1))
    /\ userSeq = 2
    /\ postSeq = MaxProbePosts + 1
    /\ comments = Empty
    /\ commentSeq = 1
    /\ likes = Empty
    /\ likeAge = Empty
    /\ InitIdleSlug
    /\ InitUploads
    /\ resp = Blank
    /\ hist = HistNone
    /\ \E S \in SUBSET (1..MaxProbePosts) : \E f \in [S -> ProbeSlugs] :
         /\ \A p, o \in S : p # o => f[p] # f[o]
         /\ posts = [p \in S |-> ProbeRow(f[p])]
         /\ \E route \in {"createPost", "updatePost"}, id \in 0..MaxProbePosts,
               t \in {T_Hello, T_Other} :
              /\ route = "createPost" => id = 0
              /\ route = "updatePost" => id \in S
              /\ req = [r \in Slots |->
                         IF r = 1
                         THEN StartUniqueSlug(
                                [NewReq(route, [hdr |-> "bearer", tok |-> "valid", tokUid |-> 1])
                                   EXCEPT !.title = t, !.id = id, !.user = 1],
                                trim(t))
                         ELSE Blank]

NextProbe == \E r \in Slots : ProbeSlug(r)

SpecProbe == InitProbe /\ [][NextProbe]_vars

\* the requests of the most-liked listing
TrendRequests ==
    {[NewReq("createPost", c) EXCEPT !.title = t, !.published = pb] :
        c \in OwnerCreds, t \in {T_Hello, T_Other}, pb \in {"true", "false"}}
    \cup {[NewReq("toggleLike", c) EXCEPT !.id = p] : c \in GoodCreds, p \in PostIds}
    \cup {[NewReq("getMostLikedPosts", NoCred) EXCEPT !.timeframe = tf, !.limit = lm] :
            tf \in {"undefined", "all", "day", "month", "year"},
            lm \in {Undefined, <<"1">>, <<"x">>}}

NextTrend ==
    \/ Register
    \/ Age
    \/ \E r \in Slots : ReceiveAlone(r, TrendRequests)
    \/ \E r \in Slots : ProbeSlug(r)
    \/ \E r \in Slots : InsertPost(r)
    \/ \E r \in Slots : FindPost(r)
    \/ \E r \in Slots : SelectLike(r)
    \/ \E r \in Slots : WriteLike(r)
    \/ \E r \in Slots : CountLikes(r)
    \/ \E r \in Slots : MostLiked(r)

SpecTrend == Init /\ [][NextTrend]_vars

\* the requests of the cascade specification: posts, comments and likes
\* made and deleted by both users, and accounts deleted
CascadeRequests ==
    {[NewReq("createPost", c) EXCEPT !.title = T_Hello, !.published = "true"] :
        c \in GoodCreds}
    \cup {[NewReq("deletePost", c) EXCEPT !.id = p] : c \in GoodCreds, p \in PostIds}
    \cup {[NewReq("createComment", c) EXCEPT !.id = p, !.text = "first"] :
            c \in GoodCreds, p \in PostIds}
    \cup {[NewReq("toggleLike", c) EXCEPT !.id = p] : c \in GoodCreds, p \in PostIds}
    \cup {[NewReq("deleteAccount", c) EXCEPT !.password = "right"] : c \in GoodCreds}

NextCascade ==
    \/ Register
    \/ \E r \in Slots : Receive(r, CascadeRequests)
    \/ \E r \in Slots : CheckOwnership(r)
    \/ \E r \in Slots : ProbeSlug(r)
    \/ \E r \in Slots : InsertPost(r)
    \/ \E r \in Slots : DeletePostRow(r)
    \/ \E r \in Slots : FindPost(r)
    \/ \E r \in Slots : InsertComment(r)
    \/ \E r \in Slots : FindComment(r)
    \/ \E r \in Slots : SelectLike(r)
    \/ \E r \in Slots : WriteLike(r)
    \/ \E r \in Slots : CountLikes(r)
    \/ \E r \in Slots : FindByEmail(r)
    \/ \E r \in Slots : DeleteUser(r)

SpecCascade == Init /\ [][NextCascade]_vars

\* the requests of the reading specification: a post created published or
\* not by user 1, and read by id and by slug by its owner, by the other user
\* and by nobody in particular
ViewRequests ==
    {[NewReq("createPost", c) EXCEPT !.title = T_Hello, !.published = pb] :
        c \in OwnerCreds, pb \in {"true", "false"}}
    \cup {[NewReq("getPost", c) EXCEPT !.ident = i] :
            c \in GoodCreds \cup {NoCred},
            i \in {<<"1">>, <<"2">>, generateSlug(T_Hello)}}

NextView ==
    \/ Register
    \/ \E r \in Slots : Receive(r, ViewRequests)
    \/ \E r \in Slots : ProbeSlug(r)
    \/ \E r \in Slots : InsertPost(r)
    \/ \E r \in Slots : GetPostFind(r)
    \/ \E r \in Slots : IncrementViews(r)

SpecView == Init /\ [][NextView]_vars

\* the requests of the title specification: posts created and retitled with
\* a title of letters and with one of punctuation only
T_Bang == <<"!","!","!">>

TitleRequests ==
    {[NewReq("createPost", c) EXCEPT !.title = t] :
        c \in OwnerCreds, t \in {T_Hello, T_Bang, <<"!"," ","!">>}}
    \cup {[NewReq("updatePost", c) EXCEPT !.id = p, !.title = t] :
            c \in OwnerCreds, p \in PostIds, t \in {T_Hello, T_Bang}}

NextTitles ==
    \/ Register
    \/ \E r \in Slots : Receive(r, TitleRequests)
    \/ \E r \in Slots : CheckOwnership(r)
    \/ \E r \in Slots : ProbeSlug(r)
    \/ \E r \in Slots : InsertPost(r)
    \/ \E r \in Slots : UpdatePostRow(r)

SpecTitles == Init /\ [][NextTitles]_vars

\* the requests of the creation race
RaceRequests ==
    {[NewReq("createPost", c) EXCEPT !.title = t, !.published = pb] :
        c \in GoodCreds, t \in {T_Hello, T_Other}, pb \in {"true", "false"}}

NextRace ==
    \/ Register
    \/ \E r \in Slots : Receive(r, RaceRequests)
    \/ \E r \in Slots : ProbeSlug(r)
    \/ \E r \in Slots : InsertPost(r)

SpecRace == Init /\ [][NextRace]_vars

\* the requests of the likes specification
LikeRequests ==
    {[NewReq("createPost", c) EXCEPT !.title = T_Hello, !.published = "true"] :
        c \in OwnerCreds}
    \cup {[NewReq("toggleLike", c) EXCEPT !.id = p] : c \in GoodCreds, p \in PostIds}

NextLikes ==
    \/ Register
    \/ \E r \in Slots : Receive(r, LikeRequests)
    \/ \E r \in Slots : ProbeSlug(r)
    \/ \E r \in Slots : InsertPost(r)
    \/ \E r \in Slots : FindPost(r)
    \/ \E r \in Slots : SelectLike(r)
    \/ \E r \in Slots : WriteLike(r)
    \/ \E r \in Slots : CountLikes(r)

SpecLikes == Init /\ [][NextLikes]_vars

\* the requests of the registration specification
E_a == <<"a","@","x",".","i","o">>
E_A == <<"A","@","x",".","i","o">>
E_AX == <<"A","@","X",".","I","O">>
E_b == <<"b","@","x",".","i","o">>
E_bad == <<"a","@","x">>

RegRequests ==
    {[NewReq("register", NoCred) EXCEPT !.email = e, !.password = "right"] :
        e \in {E_a, E_A, E_AX, E_b, E_bad}}

NextReg ==
    \/ \E r \in Slots : Receive(r, RegRequests)
    \/ \E r \in Slots : RegisterLookup(r)
    \/ \E r \in Slots : RegisterInsert(r)

SpecReg == Init /\ [][NextReg]_vars

\* the requests of the upload specification
U_cloud == <<"/","/","c","l","o","u","d","i","n","a","r","y",".","c","o","m","/","b","l","o","g","-","i","m","a","g","e","s","/","a",".","p","n","g">>
U_cloudNoId == <<"/","/","c","l","o","u","d","i","n","a","r","y",".","c","o","m","/","a",".","p","n","g">>
U_local == <<"/","/","h","/","u","p","l","o","a","d","s","/","a",".","p","n","g">>
U_localNone == <<"/","/","h","/","u","p","l","o","a","d","s","/">>
U_other == <<"/","/","h","/","a",".","p","n","g">>

\* the images the URLs above name
Assets ==
    {Target(getFileInfoFromUrl(U_cloud)), Target(getFileInfoFromUrl(U_local))}

UpRequests ==
    {[NewReq("deleteImage", c) EXCEPT !.imageUrl = u] :
        c \in GoodCreds \cup {NoCred},
        u \in {Undefined, U_cloud, U_cloudNoId, U_local, U_localNone, U_other}}

\* any of the images may be in store at the start
InitUp == InitDbEmpty /\ InitReq /\ InitIdleSlug /\ uploads \in SUBSET Assets

NextUp ==
    \/ Register
    \/ \E r \in Slots : Receive(r, UpRequests)
    \/ \E r \in Slots : DeleteUpload(r)

SpecUp == InitUp /\ [][NextUp]_vars

(***************************************************************************)
(* Slug harness                                                            *)
(***************************************************************************)
InitSlug ==
    /\ InitDbEmpty
    /\ InitUploads
    /\ InitReq
    /\ sTitle \in StringsUpTo(SlugAlphabet, MaxLen)
    /\ sSlug = <<>>
    /\ sSlug2 = <<>>
    /\ sPc = "in"

Slugify ==
    /\ sPc = "in"
    /\ sSlug' = generateSlug(sTitle)
    /\ sPc' = "once"
    /\ UNCHANGED <<sTitle, sSlug2, dbVars, req, resp, hist, uploads>>

SlugifyAgain ==
    /\ sPc = "once"
    /\ sSlug2' = generateSlug(sSlug)
    /\ sPc' = "twice"
    /\ UNCHANGED <<sTitle, sSlug, dbVars, req, resp, hist, uploads>>

NextSlug == Slugify \/ SlugifyAgain

SpecSlug == InitSlug /\ [][NextSlug]_vars

(***************************************************************************)
(* Guards: C1, C2, C3                                                      *)
(***************************************************************************)
BadCred(q) == ~(q.hdr = "bearer" /\ q.tok = "valid")

\* a request has just arrived and stands in slot r
Arrived(r) == req[r].pc = "idle" /\ req'[r].pc # "idle"

\* a request has just arrived and was answered before any query of a handler
AnsweredOnArrival == req' = req /\ resp' # Blank

GuardMsg(q) ==
    IF q.hdr # "bearer" \/ q.tok = "empty" THEN "Access denied. No token provided."
    ELSE IF q.tok = "malformed" THEN "Invalid token"
    ELSE "Token expired"

C1_State ==
    /\ \A r \in Slots : req[r].route \in MandatoryRoutes => ~BadCred(req[r])
    /\ (resp.route \in MandatoryRoutes /\ BadCred(resp)) =>
           /\ resp.pc = "done"
           /\ resp.status = 401
           /\ resp.msg = GuardMsg(resp)
           /\ resp.user = 0

\* C1: on every route behind verifyToken, a request with no Authorization
\* header, a header that is not 'Bearer <token>', a malformed token or an
\* expired token is answered 401, never stands in a handler (or in
\* checkOwnership), and the step that answers it changes no table
C1_MandatoryRejects ==
    [][/\ C1_State'
       /\ (resp'.route \in MandatoryRoutes /\ BadCred(resp'))
              => UNCHANGED dbVars]_vars

\* C1 witness: deleteAccount with an expired token of an existing user was
\* answered 401 and the user is still there
C1_Witness ==
    /\ resp.route = "deleteAccount"
    /\ resp.tok = "expired"
    /\ resp.status = 401
    /\ resp.tokUid \in users

ExpectedUser(q, U) ==
    IF q.hdr = "bearer" /\ q.tok = "valid" /\ q.tokUid \in U THEN q.tokUid ELSE 0

\* C2: on every route behind optionalAuth a request always reaches the
\* handler, whatever its token; the guard never answers with an error; a user
\* is attached exactly when the token verifies and its user row exists
C2_OptionalProceeds ==
    [][/\ \A r \in Slots :
            (Arrived(r) /\ req'[r].route \in OptionalRoutes) =>
                req'[r].user = ExpectedUser(req'[r], users)
       /\ (AnsweredOnArrival /\ resp'.route \in OptionalRoutes) =>
              /\ resp'.user = ExpectedUser(resp', users)
              /\ resp'.status = 200
       /\ resp'.route \in OptionalRoutes => resp'.status \in {200, 404}
       /\ \A r \in Slots :
            (req'[r].route \in OptionalRoutes /\ req'[r].user # 0) =>
                (~BadCred(req'[r]) /\ req'[r].user = req'[r].tokUid)]_vars

\* C2 witness: getPost with a verifiable token of a deleted user was served
\* with no user attached
C2_Witness ==
    /\ resp.route = "getPost"
    /\ resp.status = 200
    /\ resp.tok = "valid"
    /\ resp.tokUid \notin users
    /\ resp.user = 0

\* C3: once a user's account is deleted, a request on a mandatory route that
\* presents an unexpired, correctly signed token of that user is answered 401
\* (user no longer exists) and does not reach the handler
C3_DeletedUserRejected ==
    [][/\ \A r \in Slots :
            (Arrived(r) /\ req'[r].route \in MandatoryRoutes) =>
                req'[r].tokUid \in users
       /\ (AnsweredOnArrival /\ resp'.route \in MandatoryRoutes
             /\ ~BadCred(resp') /\ resp'.tokUid \notin users) =>
              /\ resp'.status = 401
              /\ resp'.msg = "Token is valid but user no longer exists"]_vars

\* C3 witness: a request with a verifiable token of a deleted user was
\* answered 401
C3_Witness ==
    /\ resp.route \in MandatoryRoutes
    /\ resp.tok = "valid"
    /\ resp.tokUid \in Issued
    /\ resp.tokUid \notin users
    /\ resp.status = 401
    /\ resp.msg = "Token is valid but user no longer exists"

(***************************************************************************)
(* Ownership: C4, C5                                                       *)
(***************************************************************************)
\* slot r has just run checkOwnership
RanOwnership(r) == req[r].pc = "checkOwnership" /\ req'[r] # req[r]

\* the rows checkOwnership(kind) reads
OwnedTable(q) == IF OwnershipKind(q.route) = "post" THEN posts ELSE comments

HandlerPcs ==
    {"generateUniqueSlug", "Post.update", "Post.delete", "Post.findById",
     "Comment.update", "Comment.delete"}

ActedBy(u) ==
    \E r \in Slots :
        /\ req'[r] # req[r]
        /\ req[r].route \in MandatoryRoutes
        /\ ~BadCred(req[r])
        /\ req[r].user = u
        /\ req[r].tokUid = u

PostTouched(p) ==
    \/ p \notin DOMAIN posts'
    \/ posts'[p].title # posts[p].title
    \/ posts'[p].slug # posts[p].slug
    \/ posts'[p].published # posts[p].published
    \/ posts'[p].user_id # posts[p].user_id

OwnershipAfterAuth ==
    \A r \in Slots : req[r].pc = "checkOwnership" =>
        (req[r].user # 0 /\ ~BadCred(req[r]) /\ req[r].user = req[r].tokUid)

C6_SlugIdempotent == sPc = "twice" => sSlug2 = sSlug

\* C6 witness: a title with upper case, punctuation, a space run and a hyphen
\* has been slugified twice and the first pass changed it
C6_Witness ==
    /\ sPc = "twice"
    /\ sSlug # sTitle
    /\ sSlug # <<>>
    /\ \E i \in 1..Len(sTitle) : sTitle[i] = " "
    /\ \E i \in 1..Len(sTitle) : sTitle[i] = "-"

\* the slug the documented derivation yields: leading and trailing hyphens
\* removed from the collapsed string
RECURSIVE stripHyphens(_)
stripHyphens(s) ==
    IF s # <<>> /\ Head(s) = "-" THEN stripHyphens(Tail(s))
    ELSE IF s # <<>> /\ s[Len(s)] = "-"
         THEN stripHyphens(SubSeq(s, 1, Len(s) - 1))
         ELSE s

SlugCharsOnly(s) ==
    \A i \in 1..Len(s) : s[i] \in (Range(LowerCase) \cup Range(Digits) \cup {"-"})

NoAdjacentHyphens(s) ==
    \A i \in 1..(Len(s) - 1) : ~(s[i] = "-" /\ s[i + 1] = "-")

NoEdgeHyphen(s) == s = <<>> \/ (s[1] # "-" /\ s[Len(s)] # "-")

\* C7: generateSlug returns the title lowercased, stripped of characters
\* outside [a-z0-9 -], white-space runs turned into one hyphen, repeated
\* hyphens collapsed and leading/trailing hyphens trimmed; the result has only
\* [a-z0-9-], no two adjacent hyphens and no hyphen at either end
C7_SlugShape ==
    sPc # "in" =>
        /\ sSlug = stripHyphens(replaceRuns(replaceRuns(
                       removeSpecial(toLowerCase(sTitle)), WhiteSpace), {"-"}))
        /\ SlugCharsOnly(sSlug)
        /\ NoAdjacentHyphens(sSlug)
        /\ NoEdgeHyphen(sSlug)

\* the step of slot r that runs Post.create's INSERT
InsertedBy(r) == req[r].pc = "Post.create" /\ req'[r].pc = "idle"

\* C8: a post created with a title whose derived slug an existing post holds
\* is created (201) and stored with the suffixed slug generateUniqueSlug
\* found, which differs from the base slug and from every slug held
C8_CollidingCreateSuffixed ==
    [][\A r \in Slots :
         (InsertedBy(r) /\ ~SlugFree(posts, generateSlug(trim(req[r].title)), 0)) =>
             /\ resp'.status = 201
             /\ postSeq \in DOMAIN posts'
             /\ posts'[postSeq].slug = req[r].slug
             /\ posts'[postSeq].slug # generateSlug(trim(req[r].title))
             /\ SlugFree(posts, posts'[postSeq].slug, 0)]_vars

SlugsDistinct(P) == \A p, o \in DOMAIN P : p # o => P[p].slug # P[o].slug

\* the step of slot r that runs one probe of generateUniqueSlug
ProbedBy(r) == req[r].pc = "generateUniqueSlug" /\ req'[r] # req[r]

\* the step of slot r that runs Post.update's UPDATE with a new title and
\* answers 200
RetitledBy(r) ==
    /\ req[r].pc = "Post.update"
    /\ req[r].route = "updatePost"
    /\ req[r].title # Undefined
    /\ req'[r].pc = "idle"
    /\ resp'.status = 200

\* C9: under every interleaving of creations, title updates and deletions no
\* two posts have the same slug; a title update that succeeds stores the slug
\* it computed, which no other post holds; and an update whose base slug is
\* held by the updated post itself settles on the unsuffixed base slug and
\* stores it
C9_SlugsUnique ==
    [][/\ SlugsDistinct(posts)
       /\ SlugsDistinct(posts')
       /\ \A r \in Slots :
            /\ (/\ ProbedBy(r)
                /\ req[r].route = "updatePost"
                /\ req[r].counter = 1
                /\ req[r].id \in DOMAIN posts
                /\ posts[req[r].id].slug = req[r].baseSlug) =>
                   /\ req'[r].pc = "Post.update"
                   /\ req'[r].slug = generateSlug(trim(req[r].title))
            /\ RetitledBy(r) =>
                   /\ posts'[req[r].id].slug = req[r].slug
                   /\ posts'[req[r].id].title = trim(req[r].title)
                   /\ SlugFree(posts', req[r].slug, req[r].id)
                   /\ req[r].counter = 1 =>
                          posts'[req[r].id].slug = generateSlug(trim(req[r].title))]_vars

\* C9 witness: a title update of a post that holds the base slug of its new
\* title has probed, kept the unsuffixed base, and is about to store it, while
\* another post holds the first suffixed slug
C9_Witness ==
    \E r \in Slots :
        /\ req[r].pc = "Post.update"
        /\ req[r].route = "updatePost"
        /\ req[r].title = T_hello
        /\ req[r].id \in DOMAIN posts
        /\ posts[req[r].id].slug = generateSlug(T_hello)
        /\ posts[req[r].id].title = T_Hello
        /\ req[r].slug = generateSlug(T_hello)
        /\ \E o \in DOMAIN posts : o # req[r].id /\ posts[o].slug = generateSlug(T_Hello1)

\* the step of slot r that runs the DELETE or INSERT of Like.toggle
ToggledBy(r) == req[r].pc = "Like.write" /\ req'[r].pc # "Like.write"

\* the step of slot r that answers toggleLike
ToggleAnsweredBy(r) == req[r].pc = "Like.getCountByPostId" /\ req'[r].pc = "idle"

\* C10: a like toggle run without interference deletes the row and reports
\* liked=false, 'unliked' when the row existed before the call, and otherwise
\* inserts one row and reports liked=true, 'liked'; the reported flag equals
\* the existence of the row after the call, and rows of other pairs stay
C10_ToggleTwoCases ==
    [][\A r \in Slots :
         /\ ToggledBy(r) =>
              LET p == req[r].id
                  u == req[r].user
                  before == LikeRows(likes, p, u)
              IN  /\ req[r].cur = (before > 0)
                  /\ req'[r].pc = "Like.getCountByPostId"
                  /\ IF before > 0
                     THEN /\ LikeRows(likes', p, u) = 0
                          /\ req'[r].liked = FALSE
                          /\ req'[r].action = "unliked"
                     ELSE /\ LikeRows(likes', p, u) = 1
                          /\ req'[r].liked = TRUE
                          /\ req'[r].action = "liked"
                  /\ req'[r].liked = (LikeRows(likes', p, u) > 0)
                  /\ \A o \in PostIds, v \in 1..MaxUsers :
                         <<o, v>> # <<p, u>> => LikeRows(likes', o, v) = LikeRows(likes, o, v)
         /\ ToggleAnsweredBy(r) =>
              /\ likes' = likes
              /\ resp'.status = 200
              /\ resp'.liked = req[r].liked
              /\ resp'.action = req[r].action
              /\ resp'.liked = (LikeRows(likes', req[r].id, req[r].user) > 0)]_vars

\* C10 witness: a toggle has removed the caller's like and answered
\* 'unliked', while the other user's like of the same post stands
C10_Witness ==
    /\ resp.route = "toggleLike"
    /\ resp.status = 200
    /\ resp.action = "unliked"
    /\ ~resp.liked
    /\ LikeRows(likes, resp.id, resp.user) = 0
    /\ \E v \in users : v # resp.user /\ LikeRows(likes, resp.id, v) = 1

\* C11: two toggles by one user on one published post, answered one after
\* the other with no other request between them, leave the pair liked or not
\* liked as it was before the first, and the second response reports the like
\* count the post had before the first
C11_ToggleTwiceRestores ==
    hist.n = 2 =>
        /\ (LikeRows(likes, hist.id, hist.user) > 0) = hist.liked0
        /\ getCountByPostId(likes, hist.id) = hist.count0
        /\ resp.route = "toggleLike" =>
               /\ resp.id = hist.id
               /\ resp.user = hist.user
               /\ resp.status = 200
               /\ resp.count = hist.count0
               /\ resp.liked = hist.liked0

\* C11 witness: a post liked by both users was unliked and liked again by one
\* of them, and the second response has just been given
C11_Witness ==
    /\ hist.n = 2
    /\ hist.liked0
    /\ hist.count0 = 2
    /\ resp.route = "toggleLike"
    /\ resp.action = "liked"
    /\ resp.count = 2

\* the step of slot r that runs the count query of a list and answers
ListAnsweredBy(r) == req[r].pc = "list.count" /\ req'[r].pc = "idle"

\* C12: every paginated list answers 200 with pagination.pages equal to
\* ceil(total / limit), which is 0 when total is 0, where limit is the
\* effective page size; when the requested page is greater than pages the
\* item list is empty; and a page query with a numeric page and limit does
\* not fail
C12_PagesCeil ==
    [][\A r \in Slots :
         /\ (req[r].pc = "list.page" /\ req'[r] # req[r]
               /\ req[r].pageNum # NaN /\ req[r].limitNum # NaN) =>
                req'[r].pc = "list.count"
         /\ ListAnsweredBy(r) =>
              LET limit == req[r].limitNum[1]
                  page == req[r].pageNum[1]
              IN  /\ resp'.status = 200
                  /\ resp'.total = CountRows(req[r])
                  /\ resp'.pages * limit >= resp'.total
                  /\ (resp'.pages - 1) * limit < resp'.total \/ resp'.total = 0
                  /\ resp'.total = 0 => resp'.pages = 0
                  /\ page > resp'.pages => resp'.items = <<>>
                  /\ Len(resp'.items) <= limit]_vars

\* C12 witness: the post list, asked for page 2 with the default page size
\* while one post is published, answered 200 with pages = 1 and no item
C12_Witness ==
    /\ resp.route = "getPosts"
    /\ resp.status = 200
    /\ resp.page = <<"2">>
    /\ resp.limit = Undefined
    /\ resp.total = 1
    /\ resp.pages = 1
    /\ resp.items = <<>>

\* C13: for every value of the page and limit parameters of a list endpoint
\* the page number handed to the accessor is an integer >= 1 (1 when page is
\* absent) and the page size is an integer from 1 to the endpoint's maximum
\* (100 for a post's comments and likers, 50 for the other lists), so that
\* the offset (page - 1) * limit is not negative
C13_PagingInRange ==
    \A r \in Slots :
        (req[r].route \in ListRoutes /\ req[r].pc # "idle") =>
            /\ req[r].pageNum # NaN
            /\ req[r].pageNum[1] >= 1
            /\ req[r].page = Undefined => req[r].pageNum[1] = 1
            /\ req[r].limitNum # NaN
            /\ req[r].limitNum[1] >= 1
            /\ req[r].limitNum[1] <=
                   (IF req[r].route \in {"getComments", "getPostLikes"} THEN 100 ELSE 50)
            /\ (req[r].pageNum[1] - 1) * req[r].limitNum[1] >= 0

\* s occurs in t as a run of consecutive characters
Contains(t, s) == \E i \in 1..(Len(t) - Len(s) + 1) : SubSeq(t, i, i + Len(s) - 1) = s

ContainsNoCase(t, s) == Contains(toLowerCase(t), toLowerCase(s))

\* the step of slot r that runs the page query of the post list
PostsPagedBy(r) ==
    /\ req[r].pc = "list.page"
    /\ req[r].route = "getPosts"
    /\ req'[r].pc = "list.count"

\* the step of slot r that answers the post list
PostsAnsweredBy(r) == ListAnsweredBy(r) /\ req[r].route = "getPosts"

\* the published posts whose title or body contains the term, ignoring case
SearchResult(term) ==
    {p \in DOMAIN posts : /\ posts[p].published
                          /\ \/ ContainsNoCase(posts[p].title, term)
                             \/ ContainsNoCase(posts[p].body, term)}

\* C14: with a non-empty search term the post list returns, whatever tags and
\* author are, the requested page of exactly the published posts whose title,
\* excerpt or body contains the term as a case-insensitive substring, newest
\* first, and reports their number as total
C14_SearchIsSubstring ==
    [][\A r \in Slots :
         /\ (PostsPagedBy(r) /\ SearchOn(req[r])) =>
                req'[r].items =
                    Slice(Desc(SearchResult(req[r].search)),
                          (req[r].pageNum[1] - 1) * req[r].limitNum[1],
                          req[r].limitNum[1])
         /\ (PostsAnsweredBy(r) /\ SearchOn(req[r])) =>
                resp'.total = Cardinality(SearchResult(req[r].search))]_vars

\* the author filter names a user id: the parameter reads as a non-zero
\* integer
AuthorGiven(q) ==
    /\ q.author # Undefined
    /\ jsParseInt(q.author) # NaN
    /\ jsParseInt(q.author) # Num(0)

\* the posts of filter mode: published, sharing a tag with the tag filter
\* when there is one, owned by the author when one is given
FilterResult(q) ==
    {p \in DOMAIN posts :
        /\ posts[p].published
        /\ FilterTags(q) # {} => \E t \in FilterTags(q) : t \in posts[p].tags
        /\ AuthorGiven(q) => posts[p].user_id = jsParseInt(q.author)[1]}

KnownStatus(e) ==
    IF e.code = "23505" THEN 409
    ELSE IF e.code \in {"23503", "22P02"} THEN 400
    ELSE IF e.name \in {"JsonWebTokenError", "TokenExpiredError"} THEN 401
    ELSE 0

\* C16 as stated: every error is answered once with success=false and no
\* data; the status is 409 for 23505, 400 for 23503 and 22P02, 401 for a
\* token signature or expiry error, the error's own status code for an
\* application error and 500 otherwise; a storage code wins over a carried
\* status code
C16_ErrorMapping ==
    resp.route = "raise" =>
        /\ ~resp.success
        /\ ~resp.data
        /\ resp.status =
               (IF KnownStatus(resp.err) # 0 THEN KnownStatus(resp.err)
                ELSE IF resp.err.statusCode # 0 THEN resp.err.statusCode
                ELSE 500)

\* C16 as amended: as C16, with 400 for an error named ValidationError,
\* which like the token errors comes after the storage codes and before the
\* status code the error carries
C16_ErrorMappingValidation ==
    resp.route = "raise" =>
        /\ ~resp.success
        /\ ~resp.data
        /\ resp.status =
               (IF KnownStatus(resp.err) # 0 THEN KnownStatus(resp.err)
                ELSE IF resp.err.name = "ValidationError" THEN 400
                ELSE IF resp.err.statusCode # 0 THEN resp.err.statusCode
                ELSE 500)

\* C16 witness: an error with storage code 23505 that carries status 404 was
\* answered 409
C16_Witness ==
    /\ resp.route = "raise"
    /\ resp.err.code = "23505"
    /\ resp.err.statusCode = 404
    /\ resp.status = 409
    /\ ~resp.success

\* the step of slot r that runs Post.findById for createComment or toggleLike
PostCheckedBy(r) ==
    /\ req[r].pc = "Post.findById"
    /\ req[r].route \in {"createComment", "toggleLike"}
    /\ req'[r] # req[r]

\* slot r holds an authenticated request
Authenticated(r) == req[r].user # 0 /\ ~BadCred(req[r]) /\ req[r].user = req[r].tokUid

\* C17: createComment and toggleLike answer 404 when the post is missing and
\* 403 when it is not published, and change no table in either case; they go
\* on to their insert only after finding the post published; and a comment
\* row or like row is inserted only by such a request of an authenticated
\* user
C17_InsertOnlyOnPublished ==
    [][/\ \A r \in Slots :
            /\ PostCheckedBy(r) =>
                 /\ UNCHANGED dbVars
                 /\ IF req[r].id \notin DOMAIN posts
                    THEN req'[r].pc = "idle" /\ resp'.status = 404
                    ELSE IF ~posts[req[r].id].published
                    THEN req'[r].pc = "idle" /\ resp'.status = 403
                    ELSE req'[r].pc \in {"Comment.create", "Like.toggle"}
            /\ (req'[r].pc \in {"Comment.create", "Like.toggle"} /\ req'[r].pc # req[r].pc) =>
                 /\ PostCheckedBy(r)
                 /\ Authenticated(r)
                 /\ req[r].id \in DOMAIN posts
                 /\ posts[req[r].id].published
       /\ \A c \in DOMAIN comments' \ DOMAIN comments :
            \E r \in Slots :
                /\ req[r].pc = "Comment.create"
                /\ req[r].route = "createComment"
                /\ req'[r] # req[r]
                /\ Authenticated(r)
                /\ comments'[c].user_id = req[r].user
                /\ comments'[c].post_id = req[r].id
       /\ \A p \in PostIds, u \in 1..MaxUsers :
            LikeRows(likes', p, u) > LikeRows(likes, p, u) =>
                \E r \in Slots :
                    /\ req[r].pc = "Like.write"
                    /\ req[r].route = "toggleLike"
                    /\ req'[r] # req[r]
                    /\ Authenticated(r)
                    /\ req[r].user = u
                    /\ req[r].id = p]_vars

\* C17 witness: a user who likes a post that has since been unpublished asked
\* to toggle, was answered 403, and the like is still there
C17_Witness ==
    /\ resp.route = "toggleLike"
    /\ resp.status = 403
    /\ resp.id \in DOMAIN posts
    /\ ~posts[resp.id].published
    /\ LikeRows(likes, resp.id, resp.user) = 1

\* the step of slot r that answers a register request
RegisterAnsweredBy(r) == req[r].route = "register" /\ req'[r].pc = "idle" /\ req[r].pc # "idle"

\* some user has the email, ignoring letter case
EmailTaken(email) == \E u \in users : toLowerCase(emails[u]) = toLowerCase(email)

\* C18: under every interleaving of register requests no two users have
\* emails that are equal ignoring letter case; a register whose lowercased
\* email is taken is answered 409 and creates no user, at the handler's
\* lookup and at the INSERT alike
C18_EmailsUnique ==
    [][/\ \A u, v \in users' :
            u # v => toLowerCase(emails'[u]) # toLowerCase(emails'[v])
       /\ DOMAIN emails' = users'
       /\ \A r \in Slots :
            (RegisterAnsweredBy(r) /\ EmailTaken(req[r].email)) =>
                /\ resp'.status = 409
                /\ users' = users
                /\ emails' = emails]_vars

\* C18 witness: of two registrations in flight with addresses that differ
\* in case only, one has stored its user and the other was answered 409 by
\* the storage constraint
C18_Witness ==
    /\ resp.route = "register"
    /\ resp.status = 409
    /\ resp.msg = "Resource already exists"
    /\ \E u \in users : emails[u] = toLowerCase(resp.email) /\ emails[u] # resp.email

\* the step of slot r that runs deleteUpload and answers
DeleteImageAnsweredBy(r) ==
    /\ req[r].route = "deleteImage"
    /\ req[r].pc = "deleteUpload"
    /\ req'[r].pc = "idle"

\* C19: a delete-image request of an authenticated user with a well-formed
\* image URL is answered 200 with success, whether the removal of the image
\* went through or threw; when the image is still in store after the
\* attempt, the failure was logged and the answer is the same
C19_DeleteBestEffort ==
    [][/\ (/\ resp'.route = "deleteImage"
           /\ resp'.user # 0
           /\ getFileInfoFromUrl(resp'.imageUrl) # NoFile)
          => /\ resp'.status = 200
             /\ resp'.success
             /\ resp'.msg = "Image deleted successfully"
       /\ \A r \in Slots :
            DeleteImageAnsweredBy(r) =>
                LET t == Target(getFileInfoFromUrl(req[r].imageUrl))
                IN  /\ resp'.status = 200
                    /\ (t \in uploads /\ t \in uploads') => resp'.logged = "error"
                    /\ resp'.logged = "log" => t \notin uploads']_vars

\* C19 witness: the removal of a stored image threw, the image is still in
\* store, the failure was logged and the request was answered with success
C19_Witness ==
    /\ resp.route = "deleteImage"
    /\ resp.status = 200
    /\ resp.success
    /\ resp.logged = "error"
    /\ Target(getFileInfoFromUrl(resp.imageUrl)) \in uploads

\* the users that like post p
Likers(p) == {u \in users : LikeRows(likes, p, u) > 0}

\* C20: whatever the interleaving of toggle requests, likes has at most one
\* row for a post and a user, the number of rows of a post is the number of
\* users that like it, and the count a toggle answers with is that number
C20_OneLikeRowPerPair ==
    /\ \A k \in DOMAIN likes : likes[k] = 1
    /\ \A p \in PostIds : getCountByPostId(likes, p) = Cardinality(Likers(p))
    /\ (resp.route = "toggleLike" /\ resp.status = 200) =>
           resp.count = Cardinality(Likers(resp.id))

\* C20 witness: of two toggles of one user on one post that both found no
\* row, one has inserted the row and the other's INSERT was refused
C20_Witness ==
    /\ resp.route = "toggleLike"
    /\ resp.status = 409
    /\ ~resp.cur
    /\ LikeRows(likes, resp.id, resp.user) = 1

\* the step of slot r in which the INSERT of a toggle that found no row meets
\* a row stored since
RefusedInsertBy(r) ==
    /\ req[r].pc = "Like.write"
    /\ ~req[r].cur
    /\ LikeRows(likes, req[r].id, req[r].user) > 0
    /\ req'[r] # req[r]

\* C21: when two toggles of one user on one post both find no row and both
\* insert, the one whose INSERT violates UNIQUE(post_id, user_id) is not
\* answered with an error
C21_RefusedInsertIsNoOp ==
    [][\A r \in Slots : RefusedInsertBy(r) => resp'.status < 400]_vars

\* the posts of P stored with slug s
Holding(P, s) == {p \in DOMAIN P : P[p].slug = s}

\* the step of slot r that runs the INSERT of a creation whose probe saw the
\* slug of its title free
FreeProbeInsertedBy(r) ==
    /\ InsertedBy(r)
    /\ req[r].slug = generateSlug(trim(req[r].title))

\* C22: of two creations with the same title whose probes both saw the slug
\* free, the first INSERT stores the post with that slug, and the second is
\* refused by posts.slug UNIQUE, answered 409 and stores nothing; one post
\* holds the slug afterwards
C22_CreateRaceOneWins ==
    [][\A r \in Slots :
         FreeProbeInsertedBy(r) =>
             LET s == generateSlug(trim(req[r].title))
             IN  /\ Cardinality(Holding(posts', s)) = 1
                 /\ IF Holding(posts, s) = {}
                    THEN /\ resp'.status = 201
                         /\ Holding(posts', s) = {postSeq}
                         /\ posts'[postSeq].title = trim(req[r].title)
                    ELSE /\ resp'.status = 409
                         /\ ~resp'.success
                         /\ posts' = posts]_vars

\* C22 witness: a creation whose probe saw the slug free was answered 409,
\* the slug being held by the post of the creation it raced with
C22_Witness ==
    /\ resp.route = "createPost"
    /\ resp.status = 409
    /\ resp.slug = generateSlug(trim(resp.title))
    /\ \E p \in DOMAIN posts :
         posts[p].slug = resp.slug /\ posts[p].title = trim(resp.title)

\* the post the call in slot r leaves out of its probes, 0 for none
ExcludeId(r) == IF req[r].route = "updatePost" THEN req[r].id ELSE 0

\* base with the suffix -k
Suffixed(base, k) == base \o <<"-">> \o toDecimal(k)

\* what generateUniqueSlug is to return: the base slug when no other post
\* holds it, else base-k for the least k >= 1 that no other post holds
ExpectedSlug(P, base, excludeId) ==
    IF SlugFree(P, base, excludeId) THEN base
    ELSE LET free == {k \in 1..(Cardinality(DOMAIN P) + 1) :
                        SlugFree(P, Suffixed(base, k), excludeId)}
         IN  Suffixed(base, CHOOSE k \in free : \A j \in free : k <= j)

\* C23: run with no other write, generateUniqueSlug makes at most n + 1
\* probes for a store of n posts, writes nothing, and returns the base slug
\* when no post other than excludeId holds it, else base-k for the least
\* k >= 1 that no such post holds
C23_UniqueSlugProbe ==
    [][\A r \in Slots :
         ProbedBy(r) =>
             /\ UNCHANGED <<dbVars, uploads>>
             /\ req[r].counter <= Cardinality(DOMAIN posts) + 1
             /\ req'[r].pc # "generateUniqueSlug" =>
                    /\ req'[r].slug =
                         ExpectedSlug(posts, generateSlug(trim(req[r].title)), ExcludeId(r))
                    /\ SlugFree(posts, req'[r].slug, ExcludeId(r))]_vars

\* C23 witness: the call for the update of a post found base and base-1 held
\* by other posts and returned base-2 after three probes
C23_Witness ==
    \E r \in Slots :
        /\ req[r].pc = "Post.update"
        /\ req[r].counter = 3
        /\ req[r].slug = Suffixed(generateSlug(T_Hello), 2)
        /\ Cardinality(DOMAIN posts) = 3
        /\ posts[req[r].id].slug = generateSlug(T_Other)

\* a most-liked listing was just answered with its posts
TrendAnswered == resp.route = "getMostLikedPosts" /\ resp.status = 200

\* post x comes before post y when posts are ranked by the counts c, most
\* first, and by creation, newest first, among equals
Before(c, x, y) == c[x] > c[y] \/ (c[x] = c[y] /\ x > y)

\* the listing of a response, held against the like counts c of the posts:
\* published posts with a count above zero, no more than the limit, most
\* liked first and newest first among equals, and no post left out that
\* qualifies unless the limit is reached by posts that come before it
ListingBy(c) ==
    LET items == resp.items
        listed == {items[i] : i \in 1..Len(items)}
    IN  /\ Len(items) <= resp.limitNum[1]
        /\ \A i \in 1..Len(items) :
             /\ items[i] \in DOMAIN posts
             /\ posts[items[i]].published
             /\ c[items[i]] > 0
        /\ \A i, j \in 1..Len(items) : i < j => Before(c, items[i], items[j])
        /\ \A p \in DOMAIN posts :
             (posts[p].published /\ c[p] > 0 /\ p \notin listed) =>
                 /\ Len(items) = resp.limitNum[1]
                 /\ \A i \in 1..Len(items) : Before(c, items[i], p)

\* C24, as stated: the most-liked listing is published posts with at least
\* one like, at most limit of them, ordered by the like count of the post,
\* most first, and newest first among posts with the same like count
C24_MostLikedByLikeCount ==
    TrendAnswered => ListingBy([p \in DOMAIN posts |-> getCountByPostId(likes, p)])

\* C24, amended: the counts are those of the likes given within the selected
\* timeframe (a day, a week, a month; a week by default; every like for 'all')
C24_MostLikedInTimeframe ==
    TrendAnswered => ListingBy([p \in DOMAIN posts |-> LikesCount(p, resp.timeframe)])

\* C24 witness: a listing of two posts by default timeframe in which the
\* post with more likes comes second, one of its likes being over a week old
C24_Witness ==
    /\ TrendAnswered
    /\ resp.timeframe = "week"
    /\ Len(resp.items) = 2
    /\ getCountByPostId(likes, resp.items[2]) > getCountByPostId(likes, resp.items[1])
    /\ LikesCount(resp.items[2], "week") = LikesCount(resp.items[1], "week")

\* an error without status code, storage code or name that errorHandler knows
Unclassified(e) ==
    /\ e.statusCode = 0
    /\ e.code \notin {"23505", "23503", "22P02"}
    /\ e.name \notin {"JsonWebTokenError", "TokenExpiredError", "ValidationError"}

\* C25: an unclassified error is answered 500; the response does not carry
\* the error's own message when NODE_ENV is production, and carries it
\* otherwise
C25_MessageSuppressedInProduction ==
    (resp.route = "raise" /\ Unclassified(resp.err) /\ resp.err.message # "") =>
        /\ resp.status = 500
        /\ resp.env = "production" => resp.msg # resp.err.message
        /\ resp.env # "production" => resp.msg = resp.err.message

\* every post, comment and like of the tables refers to rows that exist
Referenced(U, P, C, L) ==
    /\ \A p \in DOMAIN P : P[p].user_id \in U
    /\ \A c \in DOMAIN C : C[c].post_id \in DOMAIN P /\ C[c].user_id \in U
    /\ \A k \in DOMAIN L : k[1] \in DOMAIN P /\ k[2] \in U

\* C26: every comment and every like refers to an existing post and an
\* existing user at every moment; the step that deletes a post or a user
\* removes with it the user's posts and the comments and likes of the posts
\* and users gone, and no other row
C26_NoOrphans ==
    [][/\ Referenced(users, posts, comments, likes)
       /\ Referenced(users', posts', comments', likes')
       /\ (users' # users \/ DOMAIN posts' # DOMAIN posts) =>
            /\ users' # users =>
                 \A p \in DOMAIN posts : p \in DOMAIN posts' <=> posts[p].user_id \in users'
            /\ \A c \in DOMAIN comments :
                 c \in DOMAIN comments' <=> /\ comments[c].post_id \in DOMAIN posts'
                                            /\ comments[c].user_id \in users'
            /\ \A k \in DOMAIN likes :
                 k \in DOMAIN likes' <=> (k[1] \in DOMAIN posts' /\ k[2] \in users')]_vars

\* C26 witness: a user liked another user's post, and before the toggle
\* answered, the owner's account was deleted: the post and the like are gone
C26_Witness ==
    /\ resp.route = "deleteAccount"
    /\ resp.status = 200
    /\ likes = Empty
    /\ \E r \in Slots :
         /\ req[r].route = "toggleLike"
         /\ req[r].pc = "Like.getCountByPostId"
         /\ req[r].liked
         /\ req[r].user \in users
         /\ req[r].user # resp.user
         /\ req[r].id \notin DOMAIN posts

\* a step of the getPost request in slot r
GetPostStepBy(r) ==
    /\ req[r].route = "getPost"
    /\ req[r].pc # "idle"
    /\ req'[r] # req[r]

\* post p is unpublished and user u (0: nobody) is not its owner
HiddenFrom(p, u) == ~posts[p].published /\ posts[p].user_id # u

\* C27: getPost never answers with an unpublished post, addressed by id or
\* by slug, to a requester who is not its owner, and no step of such a
\* request changes the view counter of such a post
C27_UnpublishedHidden ==
    [][\A r \in Slots : \A p \in DOMAIN posts :
         (GetPostStepBy(r) /\ HiddenFrom(p, req[r].user)) =>
             /\ ~(resp'.status = 200 /\ resp'.id = p)
             /\ ~(req'[r].pc = "Post.incrementViews" /\ req'[r].id = p)
             /\ p \in DOMAIN posts' => posts'[p].views = posts[p].views]_vars

\* C28: every post in store has a slug of at least one character, whatever
\* title that passed validateTitle it was created or retitled with
C28_SlugNonEmpty ==
    \A p \in DOMAIN posts : validateTitle(posts[p].title) => posts[p].slug # <<>>

\* the step of slot r that runs Post.incrementViews and answers
ViewedBy(r) == req[r].pc = "Post.incrementViews" /\ req'[r].pc = "idle"

\* C29: no step lowers a view counter; the increment of a getPost request
\* that found post p raises the counter of p by one over its value at that
\* moment, whatever other requests did since the post was read, and changes
\* no other counter; the answer carries the counter as the request read it,
\* before its own increment; every other step, a 404 among them, leaves the
\* counters as they are
C29_ViewsCountRequests ==
    [][/\ \A p \in DOMAIN posts \cap DOMAIN posts' : posts'[p].views >= posts[p].views
       /\ \A r \in Slots :
            /\ ViewedBy(r) =>
                 /\ req[r].id \in DOMAIN posts
                 /\ posts'[req[r].id].views = posts[req[r].id].views + 1
                 /\ \A p \in DOMAIN posts \ {req[r].id} : posts'[p] = posts[p]
                 /\ resp'.status = 200
                 /\ resp'.count = req[r].count
                 /\ resp'.count <= posts[req[r].id].views
            /\ (GetPostStepBy(r) /\ ~ViewedBy(r)) =>
                 /\ posts' = posts
                 /\ req'[r].pc = "idle" => resp'.status = 404
                 /\ req'[r].pc = "Post.incrementViews" =>
                      /\ req'[r].id \in DOMAIN posts
                      /\ req'[r].count = posts[req'[r].id].views]_vars

\* C29 witness: two getPost requests read the post with counter 0, both
\* increments are in, and the second answer still carries 0
C29_Witness ==
    /\ resp.route = "getPost"
    /\ resp.status = 200
    /\ resp.count = 0
    /\ resp.id \in DOMAIN posts
    /\ posts[resp.id].views = 2

\* the step of slot r that runs the UPDATE of togglePublish and answers 200
PublishToggledBy(r) ==
    /\ req[r].route = "togglePublish"
    /\ req[r].pc = "Post.update"
    /\ req'[r].pc = "idle"
    /\ resp'.status = 200

\* C30: the write of a successful togglePublish leaves the post with the
\* negation of the published flag it had at the moment of the write, and
\* with the same title and slug, so that the flag after n successful toggles
\* is the original one for even n and its negation for odd n; the answer
\* reports the flag written
C30_ToggleFlipsAtWrite ==
    [][\A r \in Slots :
         PublishToggledBy(r) =>
             /\ req[r].id \in DOMAIN posts
             /\ posts'[req[r].id].published = ~posts[req[r].id].published
             /\ posts'[req[r].id].title = posts[req[r].id].title
             /\ posts'[req[r].id].slug = posts[req[r].id].slug
             /\ resp'.cur = posts'[req[r].id].published]_vars

====
